---- MODULE Spec2Model ----
(***************************************************************************)
(* Model of the s1panel "exec" sensor (src/unnamed/part_002, the module    *)
(* starts at line 36 of that file) and of the "systemd" sensor             *)
(* (src/s1panel/sensors/systemd.js).                                       *)
(*                                                                         *)
(* A JavaScript string is a sequence of characters, each character a       *)
(* one-character TLA+ string.  The systemd property text additionally uses *)
(* whole words ("ActiveState", "active", ...) as single symbols; none of   *)
(* them contains '=', a blank or a line break, so indexOf, split and trim  *)
(* act on them as on the spelled-out text.                                 *)
(*                                                                         *)
(* Scheduling follows the node event loop: the host's sample() call and    *)
(* every child-process callback are run-to-completion steps; a promise     *)
(* reaction (".then" callback) is a microtask that runs before the next    *)
(* child-process callback.                                                 *)
(***************************************************************************)
EXTENDS Integers, Sequences, FiniteSets, TLC

\* ------------------------------------------------------------------------
\* Bounds of the model
\* ------------------------------------------------------------------------
\* the monotonic clock (milliseconds) runs from 1 to MaxTime
MaxTime == 3
\* the host makes at most MaxCalls sample() calls in one behaviour
MaxCalls == 3

\* ------------------------------------------------------------------------
\* Strings
\* ------------------------------------------------------------------------
Range(s) == {s[i] : i \in 1..Len(s)}

Digits == <<"0", "1", "2", "3", "4", "5", "6", "7", "8", "9">>

DigitChars == Range(Digits)

IsDigit(c) == c \in DigitChars

\* the whitespace String.prototype.trim removes (the part of it the model's
\* alphabet holds)
SpaceChars == {" ", "\n", "\t", "\r"}

IsSpace(c) == c \in SpaceChars

\* \w of a JavaScript regular expression: [A-Za-z0-9_]
WordChars ==
    {"a", "b", "c", "d", "e", "f", "g", "h", "i", "j", "k", "l", "m",
     "n", "o", "p", "q", "r", "s", "t", "u", "v", "w", "x", "y", "z",
     "A", "B", "C", "D", "E", "F", "G", "H", "I", "J", "K", "L", "M",
     "N", "O", "P", "Q", "R", "S", "T", "U", "V", "W", "X", "Y", "Z",
     "_"} \cup DigitChars

IsWordChar(c) == c \in WordChars

\* Operators take their arguments by name; a local function of a one-element
\* domain takes its argument by value, so that a string an operator walks
\* over is computed once, however often the walk reads it.

\* String.prototype.trim
Trim(str) ==
    LET trim[s \in {str}] ==
          LET inner == {i \in 1..Len(s) : ~IsSpace(s[i])} IN
          IF inner = {} THEN <<>>
          ELSE SubSeq(s, CHOOSE i \in inner : \A k \in inner : i <= k,
                         CHOOSE i \in inner : \A k \in inner : k <= i)
    IN  trim[str]

\* String.prototype.split(d) for a one-character d: always at least one
\* piece; piece k lies between the (k-1)-th and the k-th occurrence of d
Split(str, d) ==
    LET split[s \in {str}] ==
          LET at == {i \in 1..Len(s) : s[i] = d}
              cut(k) == IF k = 0 THEN 0
                        ELSE IF k > Cardinality(at) THEN Len(s) + 1
                        ELSE CHOOSE i \in at :
                                Cardinality({m \in at : m < i}) = k - 1
          IN  [k \in 1..(Cardinality(at) + 1) |->
                  SubSeq(s, cut(k - 1) + 1, cut(k) - 1)]
    IN  split[str]

\* Array.prototype.join
Join(parts, sep) ==
    LET join[a \in {parts}] ==
          LET upto[i \in 0..Len(a)] ==
                IF i = 0 THEN <<>>
                ELSE IF i = 1 THEN a[1]
                ELSE upto[i - 1] \o sep \o a[i]
          IN  upto[Len(a)]
    IN  join[parts]

\* String(n) for an integer n
RECURSIVE NatStr(_)
NatStr(n) ==
    IF n < 10 THEN <<Digits[n + 1]>>
    ELSE Append(NatStr(n \div 10), Digits[(n % 10) + 1])

NumStr(n) == IF n < 0 THEN <<"-">> \o NatStr(0 - n) ELSE NatStr(n)

\* the digits of radix 16, in both cases, and their values
HexDigits ==
    <<"0", "1", "2", "3", "4", "5", "6", "7", "8", "9",
      "a", "b", "c", "d", "e", "f", "A", "B", "C", "D", "E", "F">>

\* the value of the digit c in `radix` (10 or 16), and -1 when c is no digit
\* of that radix
DigitVal(c, radix) ==
    IF \E d \in 1..(IF radix = 16 THEN 22 ELSE 10) : HexDigits[d] = c
    THEN LET d == CHOOSE d \in 1..22 : HexDigits[d] = c IN
         IF d > 16 THEN d - 7 ELSE d - 1
    ELSE -1

\* the value of the longest run of digits of `radix` that starts at the
\* `first` character of str, and -1 (NaN) when the run is empty
ParseDigits(str, first, radix) ==
    LET parse[s \in {str}] ==
          LET value[i \in (first - 1)..Len(s)] ==
                IF i < first THEN 0
                ELSE radix * value[i - 1] + DigitVal(s[i], radix)
              end[k \in first..(Len(s) + 1)] ==
                IF k <= Len(s) /\ DigitVal(s[k], radix) >= 0
                THEN end[k + 1] ELSE k
          IN  IF end[first] = first THEN -1 ELSE value[end[first] - 1]
    IN  parse[str]

\* parseInt(s) for a token body (word characters and '.'): a body that
\* starts with 0x or 0X is read in radix 16 from its third character on,
\* any other body in radix 10; NaN is written -1
parseInt(s) ==
    IF Len(s) >= 2 /\ s[1] = "0" /\ s[2] \in {"x", "X"}
    THEN ParseDigits(s, 3, 16)
    ELSE ParseDigits(s, 1, 10)

\* ------------------------------------------------------------------------
\* exec sensor: the structured parser
\* ------------------------------------------------------------------------
\* parse_csv_line: the loop over the characters of the line
RECURSIVE csv_scan(_, _, _, _, _, _)
csv_scan(line, separator, i, result, current, in_quotes) ==
    IF i > Len(line) THEN Append(result, Trim(current))
    ELSE IF line[i] = "\""
         THEN csv_scan(line, separator, i + 1, result, current, ~in_quotes)
    ELSE IF line[i] = separator /\ ~in_quotes
         THEN csv_scan(line, separator, i + 1,
                       Append(result, Trim(current)), <<>>, in_quotes)
    ELSE csv_scan(line, separator, i + 1, result,
                  Append(current, line[i]), in_quotes)

\* (variant: the splitter pays no attention to double quotes)
parse_csv_line_quote_blind(line, separator) ==
    LET fields == Split(line, separator) IN
    [j \in 1..Len(fields) |->
        Trim(SelectSeq(fields[j], LAMBDA c : c # "\""))]

parse_csv_line(line, separator) ==
    LET scan[l \in {line}] == csv_scan(l, separator, 1, <<>>, <<>>, FALSE)
    IN  scan[line]

\* output.trim().split('\n').filter(line => line.trim() !== '')
NonBlankLines(output) ==
    SelectSeq(Split(Trim(output), "\n"), LAMBDA l : Trim(l) # <<>>)

\* (variant: the earlier column of a repeated header name keeps its value)
row_data_first_wins(headers, values) ==
    [h \in Range(headers) \ {<<"_", "_", "p", "r", "o", "t", "o", "_", "_">>} |->
        LET i == CHOOSE k \in 1..Len(headers) :
                    /\ headers[k] = h
                    /\ \A m \in 1..Len(headers) : headers[m] = h => k <= m
        IN  IF i <= Len(values) THEN values[i] ELSE <<>>]

\* the object _row_data built for one data line: a key per header name; a
\* later column of the same name overwrites the value of an earlier one.
\* The assignment _row_data['__proto__'] = value reaches the setter of
\* Object.prototype, which ignores a string: it makes no key
row_data(headers, values) ==
    [h \in Range(headers) \ {<<"_", "_", "p", "r", "o", "t", "o", "_", "_">>} |->
        LET i == CHOOSE k \in 1..Len(headers) :
                    /\ headers[k] = h
                    /\ \A m \in 1..Len(headers) : headers[m] = h => m <= k
        IN  IF i <= Len(values) THEN values[i] ELSE <<>>]

parse_csv_output(output, separator) ==
    LET parse[lines \in {NonBlankLines(output)}] ==
          IF Len(lines) < 1
          THEN [headers |-> <<>>, rows |-> <<>>, row_count |-> 0]
          ELSE LET table[headers \in {parse_csv_line(lines[1], separator)}] ==
                     LET rows == [r \in 1..(Len(lines) - 1) |->
                                    row_data(headers,
                                       parse_csv_line(lines[r + 1], separator))]
                     IN  [headers |-> headers, rows |-> rows,
                          row_count |-> Len(rows)]
               IN  table[parse_csv_line(lines[1], separator)]
    IN  parse[NonBlankLines(output)]

\* Array.prototype.slice(-n) for n > 0
LastN(s, n) == IF Len(s) <= n THEN s ELSE SubSeq(s, Len(s) - n + 1, Len(s))

parse_raw_output(output, max_lines) ==
    LET lines == NonBlankLines(output)
        result_lines == IF max_lines > 0 THEN LastN(lines, max_lines) ELSE lines
    IN  [lines |-> result_lines, line_count |-> Len(result_lines)]


\* ------------------------------------------------------------------------
\* JavaScript values that reach a replacement string
\* ------------------------------------------------------------------------
JsNum(n) == [t |-> "number", n |-> n, s |-> <<>>]

JsStr(s) == [t |-> "string", n |-> 0, s |-> s]

JsNull == [t |-> "null", n |-> 0, s |-> <<>>]

\* String(v), the conversion String.prototype.replace applies to the value
\* its replacer function returns
JsToString(v) ==
    CASE v.t = "number" -> NumStr(v.n)
      [] v.t = "string" -> v.s
      [] v.t = "null" -> <<"n", "u", "l", "l">>
      [] OTHER -> <<"u", "n", "d", "e", "f", "i", "n", "e", "d">>

\* JSON.stringify of a string: quoted, with '"', '\' and the control
\* characters of the alphabet escaped
RECURSIVE JsonEscape(_)
JsonEscape(s) ==
    IF s = <<>> THEN <<>>
    ELSE (CASE Head(s) = "\"" -> <<"\\", "\"">>
            [] Head(s) = "\\" -> <<"\\", "\\">>
            [] Head(s) = "\n" -> <<"\\", "n">>
            [] Head(s) = "\t" -> <<"\\", "t">>
            [] Head(s) = "\r" -> <<"\\", "r">>
            [] OTHER -> <<Head(s)>>) \o JsonEscape(Tail(s))

JsonString(s) == <<"\"">> \o JsonEscape(s) \o <<"\"">>

\* JSON.stringify of an array of strings
JsonStringArray(a) ==
    <<"[">> \o Join([i \in 1..Len(a) |-> JsonString(a[i])], <<",">>) \o <<"]">>

\* the order of two canonical digit strings by their value: the shorter one
\* is the smaller, and of two of one length the one with the smaller digit
\* at the first place they differ
IndexLeq(a, b) ==
    \/ Len(a) < Len(b)
    \/ /\ Len(a) = Len(b)
       /\ \/ a = b
          \/ \E i \in 1..Len(a) :
                /\ DigitVal(a[i], 10) < DigitVal(b[i], 10)
                /\ \A j \in 1..(i - 1) : a[j] = b[j]

\* a property name that is an array index, a canonical digit string of
\* 0 .. 4294967294 (2^32 - 2): objects enumerate such keys first, in
\* ascending numeric order, and the other keys (longer digit strings among
\* them) after these in the order they were first assigned
IsIndexKey(k) ==
    /\ k # <<>>
    /\ \A i \in 1..Len(k) : IsDigit(k[i])
    /\ (Len(k) = 1 \/ k[1] # "0")
    /\ IndexLeq(k, <<"4", "2", "9", "4", "9", "6", "7", "2", "9", "4">>)

\* the names of `headers` without repetition, in first-assignment order
RECURSIVE FirstOccurrences(_, _)
FirstOccurrences(headers, i) ==
    IF i > Len(headers) THEN <<>>
    ELSE IF \E m \in 1..(i - 1) : headers[m] = headers[i]
         THEN FirstOccurrences(headers, i + 1)
    ELSE <<headers[i]>> \o FirstOccurrences(headers, i + 1)

RECURSIVE SortIndexKeys(_)
SortIndexKeys(keys) ==
    IF keys = {} THEN <<>>
    ELSE LET least == CHOOSE k \in keys : \A m \in keys : IndexLeq(k, m)
         IN  <<least>> \o SortIndexKeys(keys \ {least})

\* the own keys of a row object in enumeration order; __proto__ is none
OwnKeys(headers) ==
    LET names == SelectSeq(FirstOccurrences(headers, 1),
                           LAMBDA k : k # <<"_", "_", "p", "r", "o", "t", "o", "_", "_">>)
    IN
    SortIndexKeys({k \in Range(names) : IsIndexKey(k)})
        \o SelectSeq(names, LAMBDA k : ~IsIndexKey(k))

\* JSON.stringify of one row object
JsonRow(headers, row) ==
    LET keys == OwnKeys(headers) IN
    <<"{">>
      \o Join([i \in 1..Len(keys) |->
                 JsonString(keys[i]) \o <<":">> \o JsonString(row[keys[i]])],
              <<",">>)
      \o <<"}">>

\* JSON.stringify(_rows)
JsonRows(headers, rows) ==
    <<"[">> \o Join([i \in 1..Len(rows) |-> JsonRow(headers, rows[i])], <<",">>)
           \o <<"]">>

\* the properties every row object inherits from Object.prototype
ObjectPrototypeKeys ==
    { <<"c", "o", "n", "s", "t", "r", "u", "c", "t", "o", "r">>,
      <<"t", "o", "S", "t", "r", "i", "n", "g">>,
      <<"v", "a", "l", "u", "e", "O", "f">>,
      <<"t", "o", "L", "o", "c", "a", "l", "e", "S", "t", "r", "i", "n", "g">>,
      <<"h", "a", "s", "O", "w", "n", "P", "r", "o", "p", "e", "r", "t", "y">>,
      <<"i", "s", "P", "r", "o", "t", "o", "t", "y", "p", "e", "O", "f">>,
      <<"p", "r", "o", "p", "e", "r", "t", "y", "I", "s", "E", "n", "u", "m",
        "e", "r", "a", "b", "l", "e">>,
      <<"_", "_", "p", "r", "o", "t", "o", "_", "_">>,
      <<"_", "_", "d", "e", "f", "i", "n", "e", "G", "e", "t", "t", "e", "r",
        "_", "_">>,
      <<"_", "_", "d", "e", "f", "i", "n", "e", "S", "e", "t", "t", "e", "r",
        "_", "_">>,
      <<"_", "_", "l", "o", "o", "k", "u", "p", "G", "e", "t", "t", "e", "r",
        "_", "_">>,
      <<"_", "_", "l", "o", "o", "k", "u", "p", "S", "e", "t", "t", "e", "r",
        "_", "_">> }

\* String(Object.prototype[k]): the text of a native function, or of the
\* prototype object itself for __proto__ (the words are single symbols)
PrototypeText(k) ==
    IF k = <<"_", "_", "p", "r", "o", "t", "o", "_", "_">>
    THEN <<"[object Object]">>
    ELSE IF k = <<"c", "o", "n", "s", "t", "r", "u", "c", "t", "o", "r">>
    THEN <<"function Object() { [native code] }">>
    ELSE <<"function ">> \o k \o <<"() { [native code] }">>

\* _row[key] !== undefined
RowHas(row, key) == key \in DOMAIN row \/ key \in ObjectPrototypeKeys

\* String(_row[key])
RowGet(row, key) == IF key \in DOMAIN row THEN row[key] ELSE PrototypeText(key)

\* ------------------------------------------------------------------------
\* exec sensor: the template renderer
\* ------------------------------------------------------------------------
\* the replacer of the tabular grammar: what token {key} is replaced by
csv_token(p, key) ==
    LET headers == p.headers
        rows == p.rows
        row_count == p.row_count
    IN
    CASE key = <<"s", "u", "c", "c", "e", "s", "s">> ->
            IF p.last_success THEN <<"t", "r", "u", "e">>
            ELSE <<"f", "a", "l", "s", "e">>
      [] key = <<"e", "x", "i", "t", "_", "c", "o", "d", "e">> ->
            IF p.exit_code.t # "undefined" THEN JsToString(p.exit_code)
            ELSE NumStr(-1)
      [] key = <<"c", "o", "l", "u", "m", "n", "s">> -> NumStr(Len(headers))
      [] key = <<"r", "o", "w", "s">> -> NumStr(row_count)
      [] key = <<"h", "e", "a", "d", "e", "r", "s">> -> Join(headers, <<",">>)
      [] key = <<"j", "s", "o", "n">> -> JsonRows(headers, rows)
      [] OTHER ->
            IF "." \in Range(key)
            THEN LET parts == Split(key, ".")
                     row_idx == parseInt(parts[1])
                     col_key == Join(Tail(parts), <<".">>)
                 IN  IF /\ row_idx >= 0
                        /\ row_idx < row_count
                        /\ RowHas(rows[row_idx + 1], col_key)
                     THEN RowGet(rows[row_idx + 1], col_key)
                     ELSE <<>>
            ELSE LET row_idx == parseInt(key) IN
                 IF row_idx >= 0 /\ row_idx < row_count
                 THEN Join([i \in 1..Len(headers) |->
                               IF RowHas(rows[row_idx + 1], headers[i])
                               THEN RowGet(rows[row_idx + 1], headers[i])
                               ELSE <<>>],
                           <<p.separator>>)
                 ELSE <<>>

\* the replacer of the line grammar
raw_token(p, key) ==
    LET raw_lines == p.raw_lines
        line_count == p.line_count
    IN
    CASE key = <<"s", "u", "c", "c", "e", "s", "s">> ->
            IF p.last_success THEN <<"t", "r", "u", "e">>
            ELSE <<"f", "a", "l", "s", "e">>
      [] key = <<"e", "x", "i", "t", "_", "c", "o", "d", "e">> ->
            IF p.exit_code.t # "undefined" THEN JsToString(p.exit_code)
            ELSE NumStr(-1)
      [] key = <<"l", "i", "n", "e", "s">> -> NumStr(line_count)
      [] key = <<"a", "l", "l">> -> Join(raw_lines, <<"\n">>)
      [] key = <<"j", "s", "o", "n">> -> JsonStringArray(raw_lines)
      [] OTHER ->
            LET line_idx == parseInt(key) IN
            IF line_idx >= 0 /\ line_idx < line_count
            THEN raw_lines[line_idx + 1]
            ELSE <<>>

\* a character of a token body: [\w.] in the tabular grammar, \w in the
\* line grammar
InBody(c, csv) == IsWordChar(c) \/ (csv /\ c = ".")

\* the end of the longest run of body characters that starts at i
BodyEnd(format, i, csv) ==
    LET end[k \in i..(Len(format) + 1)] ==
          IF k <= Len(format) /\ InBody(format[k], csv) THEN end[k + 1] ELSE k
    IN  end[i]

\* (variant: the replaced text is scanned for tokens once more)
exec_replace_rescanned(p, format) ==
    LET once(fmt) ==
          LET from[i \in 1..(Len(fmt) + 1)] ==
                IF i > Len(fmt) THEN <<>>
                ELSE IF fmt[i] # "{" THEN <<fmt[i]>> \o from[i + 1]
                ELSE LET j == BodyEnd(fmt, i + 1, p.csv) IN
                     IF j > i + 1 /\ j <= Len(fmt) /\ fmt[j] = "}"
                     THEN (IF p.csv
                           THEN csv_token(p, SubSeq(fmt, i + 1, j - 1))
                           ELSE raw_token(p, SubSeq(fmt, i + 1, j - 1)))
                          \o from[j + 1]
                     ELSE <<fmt[i]>> \o from[i + 1]
          IN  from[1]
    IN  once(once(format))

\* format.replace(/{([\w.]+)}/g, ...) and format.replace(/{(\w+)}/g, ...):
\* matches are found left to right in the format, never in replaced text;
\* from[i] is what the characters of the format from the i-th on become
exec_replace(p, format) ==
    LET from[i \in 1..(Len(format) + 1)] ==
          IF i > Len(format) THEN <<>>
          ELSE IF format[i] # "{" THEN <<format[i]>> \o from[i + 1]
          ELSE LET j == BodyEnd(format, i + 1, p.csv) IN
               IF j > i + 1 /\ j <= Len(format) /\ format[j] = "}"
               THEN (IF p.csv THEN csv_token(p, SubSeq(format, i + 1, j - 1))
                              ELSE raw_token(p, SubSeq(format, i + 1, j - 1)))
                    \o from[j + 1]
               ELSE <<format[i]>> \o from[i + 1]
    IN  from[1]

\* the result the exec sample fulfils with
\* (variant: max is the number of rows)
exec_result_max_rows(p, format) ==
    [value |-> exec_replace(p, format),
     min |-> 0,
     max |-> IF p.csv THEN p.row_count ELSE p.line_count]

exec_result(p, format) ==
    [value |-> exec_replace(p, format),
     min |-> 0,
     max |-> IF p.csv THEN Len(p.headers) ELSE p.line_count]

\* ------------------------------------------------------------------------
\* systemd sensor: per-resource status
\* ------------------------------------------------------------------------
\* String(Object.prototype[state]) for a state text that names a member of
\* Object.prototype, which a lookup in an object literal finds: the text of
\* a native function, or of the prototype object itself for __proto__; <<>>
\* for any other state text
PrototypeMember(state) ==
    CASE state = <<"__proto__">> -> <<"[object Object]">>
      [] state = <<"constructor">> -> <<"function Object() { [native code] }">>
      [] state \in { <<"toString">>, <<"valueOf">>, <<"toLocaleString">>,
                     <<"hasOwnProperty">>, <<"isPrototypeOf">>,
                     <<"propertyIsEnumerable">>, <<"__defineGetter__">>,
                     <<"__defineSetter__">>, <<"__lookupGetter__">>,
                     <<"__lookupSetter__">> } ->
            <<"function ">> \o state \o <<"() { [native code] }">>
      [] OTHER -> <<>>

\* the lookup STATUS_LABELS[state] || STATUS_LABELS.unknown; a member of
\* Object.prototype is truthy and is the label found
STATUS_LABELS(state) ==
    CASE state = <<"active">> -> <<"running">>
      [] state = <<"failed">> -> <<"failed">>
      [] state = <<"inactive">> -> <<"stopped">>
      [] state = <<"activating">> -> <<"starting">>
      [] state = <<"deactivating">> -> <<"stopping">>
      [] state = <<"reloading">> -> <<"reloading">>
      [] OTHER -> IF PrototypeMember(state) # <<>> THEN PrototypeMember(state)
                  ELSE <<"unknown">>

\* the lookup STATUS_SYMBOLS[state] || STATUS_SYMBOLS.unknown (the symbols
\* are named, not drawn)
STATUS_SYMBOLS(state) ==
    CASE state = <<"active">> -> <<"(bullet)">>
      [] state = <<"failed">> -> <<"(cross)">>
      [] state = <<"inactive">> -> <<"(circle)">>
      [] state = <<"activating">> -> <<"(left-half)">>
      [] state = <<"deactivating">> -> <<"(right-half)">>
      [] state = <<"reloading">> -> <<"(reload)">>
      [] OTHER -> IF PrototypeMember(state) # <<>> THEN PrototypeMember(state)
                  ELSE <<"?">>

\* (variant: the hours are not reduced to the hours of the last day)
format_elapsed_time_total_hours(timestamp_ms, date_now) ==
    IF timestamp_ms = 0 THEN <<"-">>
    ELSE LET elapsed_ms == date_now - timestamp_ms
             elapsed_sec == elapsed_ms \div 1000
             days == elapsed_sec \div 86400
             hours == elapsed_sec \div 3600
             minutes == (elapsed_sec % 3600) \div 60
             seconds == elapsed_sec % 60
         IN  IF elapsed_sec < 0 THEN <<"-">>
             ELSE IF days > 0
                  THEN NumStr(days) \o <<"d", " ">> \o NumStr(hours) \o <<"h">>
             ELSE IF hours > 0
                  THEN NumStr(hours) \o <<"h", " ">> \o NumStr(minutes) \o <<"m">>
             ELSE IF minutes > 0
                  THEN NumStr(minutes) \o <<"m", " ">> \o NumStr(seconds) \o <<"s">>
             ELSE NumStr(seconds) \o <<"s">>

\* (variant: a negative elapsed time is formatted like any other)
format_elapsed_time_signed(timestamp_ms, date_now) ==
    IF timestamp_ms = 0 THEN <<"-">>
    ELSE LET elapsed_sec == (date_now - timestamp_ms) \div 1000 IN
         IF elapsed_sec >= 60
         THEN NumStr(elapsed_sec \div 60) \o <<"m", " ">>
                 \o NumStr(elapsed_sec % 60) \o <<"s">>
         ELSE NumStr(elapsed_sec) \o <<"s">>

\* format_elapsed_time, with Date.now() passed as date_now
format_elapsed_time(timestamp_ms, date_now) ==
    IF timestamp_ms = 0 THEN <<"-">>
    ELSE LET elapsed_ms == date_now - timestamp_ms
             \* Math.floor(elapsed_ms / 1000); \div rounds down as floor does
             elapsed_sec == elapsed_ms \div 1000
             days == elapsed_sec \div 86400
             hours == (elapsed_sec % 86400) \div 3600
             minutes == (elapsed_sec % 3600) \div 60
             seconds == elapsed_sec % 60
         IN  IF elapsed_sec < 0 THEN <<"-">>
             ELSE IF days > 0
                  THEN NumStr(days) \o <<"d", " ">> \o NumStr(hours) \o <<"h">>
             ELSE IF hours > 0
                  THEN NumStr(hours) \o <<"h", " ">> \o NumStr(minutes) \o <<"m">>
             ELSE IF minutes > 0
                  THEN NumStr(minutes) \o <<"m", " ">> \o NumStr(seconds) \o <<"s">>
             ELSE NumStr(seconds) \o <<"s">>

\* new Date(text).getTime(): milliseconds counted from the model's epoch
\* (2025-12-02 00:00:00 local time) for the date texts of the model, and
\* NaN, written -1, for any other text
DateParse(text) ==
    CASE text = <<"2025-12-02", " ", "00:01:40">> -> 100000
      [] text = <<"2025-12-02", " ", "00:03:10">> -> 190000
      [] text = <<"2025-12-02", " ", "00:02:30">> -> 150000
      [] OTHER -> -1

\* parse_systemd_timestamp
parse_systemd_timestamp(timestamp_str) ==
    IF timestamp_str = <<>> \/ timestamp_str = <<"n/a">> THEN 0
    ELSE LET parts == Split(timestamp_str, " ")
             date_str == Join(SubSeq(parts, 2, 3), <<" ">>)
         IN  IF Len(parts) >= 3 /\ DateParse(date_str) # -1
             THEN DateParse(date_str)
             ELSE IF DateParse(timestamp_str) # -1
                  THEN DateParse(timestamp_str)
             ELSE 0

\* the property object parse_systemctl_show builds line by line: a key per
\* line that has a '=' after its first character, bound to the value of the
\* last such line; a key no line sets is absent (undefined). The
\* assignment _props['__proto__'] = value reaches the setter of
\* Object.prototype, which ignores a string: it makes no key
parse_systemctl_show(output) ==
    LET show[lines \in {Split(output, "\n")}] ==
          \* indexOf('=') counts from 0: eq_index > 0 is eq(i) > 1
          LET eq(i) == IF \E k \in 1..Len(lines[i]) : lines[i][k] = "="
                       THEN CHOOSE k \in 1..Len(lines[i]) :
                               /\ lines[i][k] = "="
                               /\ \A m \in 1..(k - 1) : lines[i][m] # "="
                       ELSE 0
              key(i) == SubSeq(lines[i], 1, eq(i) - 1)
              sets == {i \in 1..Len(lines) :
                          eq(i) > 1 /\ key(i) # <<"__proto__">>}
          IN  [name \in {key(i) : i \in sets} |->
                  LET i == CHOOSE n \in sets :
                              /\ key(n) = name
                              /\ \A m \in sets : key(m) = name => m <= n
                  IN  SubSeq(lines[i], eq(i) + 1, Len(lines[i]))]
    IN  show[Split(output, "\n")]

\* props.Key || fallback
PropOr(props, key, fallback) ==
    IF <<key>> \in DOMAIN props /\ props[<<key>>] # <<>>
    THEN props[<<key>>]
    ELSE fallback

\* String.prototype.startsWith
StartsWith(s, prefix) ==
    Len(prefix) <= Len(s) /\ SubSeq(s, 1, Len(prefix)) = prefix

\* (variant: a leading dash is removed whether or not a prefix was)
display_name_dash_always(service, strip_prefix) ==
    LET rest == IF strip_prefix # <<>> /\ StartsWith(service, strip_prefix)
                THEN SubSeq(service, Len(strip_prefix) + 1, Len(service))
                ELSE service
    IN  IF StartsWith(rest, <<"-">>) THEN Tail(rest) ELSE rest

\* the display name of get_service_status; strip_prefix is <<>> when the
\* configuration has none (null)
display_name(service, strip_prefix) ==
    IF strip_prefix # <<>> /\ StartsWith(service, strip_prefix)
    THEN LET rest == SubSeq(service, Len(strip_prefix) + 1, Len(service)) IN
         IF StartsWith(rest, <<"-">>) THEN Tail(rest) ELSE rest
    ELSE service

\* (variant: a state that is not reported stays empty)
active_state_of_no_default(props) == PropOr(props, "ActiveState", <<>>)

\* _props.ActiveState || 'unknown'
active_state_of(props) == PropOr(props, "ActiveState", <<"unknown">>)

\* (variant: a failed service has no fallback to the state-change time)
state_timestamp_no_fallback(props, active_state) ==
    IF active_state = <<"active">>
    THEN PropOr(props, "ActiveEnterTimestamp", <<>>)
    ELSE IF active_state \in {<<"failed">>, <<"inactive">>}
    THEN PropOr(props, "InactiveEnterTimestamp", <<>>)
    ELSE PropOr(props, "StateChangeTimestamp", <<>>)

\* the timestamp text that is relevant to the state
state_timestamp(props, active_state) ==
    IF active_state = <<"active">>
    THEN PropOr(props, "ActiveEnterTimestamp", <<>>)
    ELSE IF active_state = <<"failed">>
    THEN PropOr(props, "InactiveEnterTimestamp",
                PropOr(props, "StateChangeTimestamp", <<>>))
    ELSE IF active_state = <<"inactive">>
    THEN PropOr(props, "InactiveEnterTimestamp", <<>>)
    ELSE PropOr(props, "StateChangeTimestamp", <<>>)

\* the record the exec callback of get_service_status fulfils with; the
\* callback does not read its error argument
get_service_status(service, strip_prefix, stdout, date_now) ==
    LET status[props \in {parse_systemctl_show(stdout)}] ==
          LET active_state == active_state_of(props)
              timestamp_ms ==
                  parse_systemd_timestamp(state_timestamp(props, active_state))
          IN  [service |-> service,
               display_name |-> display_name(service, strip_prefix),
               description |-> PropOr(props, "Description", service),
               status |-> active_state,
               sub_state |-> PropOr(props, "SubState", <<>>),
               load_state |-> PropOr(props, "LoadState", <<>>),
               result |-> PropOr(props, "Result", <<>>),
               exec_main_status |-> PropOr(props, "ExecMainStatus", <<>>),
               exec_main_code |-> PropOr(props, "ExecMainCode", <<>>),
               label |-> STATUS_LABELS(active_state),
               symbol |-> STATUS_SYMBOLS(active_state),
               elapsed |-> format_elapsed_time(timestamp_ms, date_now),
               timestamp |-> timestamp_ms]
    IN  status[parse_systemctl_show(stdout)]

\* ------------------------------------------------------------------------
\* systemd sensor: the aggregate renderer
\* ------------------------------------------------------------------------
\* JSON.stringify of one status record, its keys in the order of the object
\* literal of get_service_status; a label or symbol that is a function is
\* left out, and one that is Object.prototype is written as {}
JsonStatus(r) ==
    LET field(name, value) == <<JsonString(<<name>>) \o <<":">> \o value>>
        looked_up(name, value) ==
            IF PrototypeMember(r.status) = <<>>
            THEN field(name, JsonString(value))
            ELSE IF r.status = <<"__proto__">>
            THEN field(name, <<"{", "}">>)
            ELSE <<>>
    IN
    <<"{">>
      \o Join(field("service", JsonString(r.service)) \o
               field("display_name", JsonString(r.display_name)) \o
               field("description", JsonString(r.description)) \o
               field("status", JsonString(r.status)) \o
               field("sub_state", JsonString(r.sub_state)) \o
               field("load_state", JsonString(r.load_state)) \o
               field("result", JsonString(r.result)) \o
               field("exec_main_status", JsonString(r.exec_main_status)) \o
               field("exec_main_code", JsonString(r.exec_main_code)) \o
               looked_up("label", r.label) \o
               looked_up("symbol", r.symbol) \o
               field("elapsed", JsonString(r.elapsed)) \o
               field("timestamp", NumStr(r.timestamp)), <<",">>)
      \o <<"}">>

\* _results.filter(r => r.status === state).length
CountStatus(results, state) ==
    Cardinality({i \in 1..Len(results) : results[i].status = <<state>>})

\* (variant: the failed count is appended even when it is 0)
summary_always_failed(results) ==
    NumStr(CountStatus(results, "active")) \o <<"/">>
        \o NumStr(Len(results)) \o <<" ", "running">>
        \o <<",", " ">> \o NumStr(CountStatus(results, "failed"))
        \o <<" ", "failed">>

\* case 8 of the replacer: the summary line
summary(results) ==
    NumStr(CountStatus(results, "active")) \o <<"/">>
        \o NumStr(Len(results)) \o <<" ", "running">>
        \o (IF CountStatus(results, "failed") > 0
            THEN <<",", " ">> \o NumStr(CountStatus(results, "failed"))
                     \o <<" ", "failed">>
            ELSE <<>>)

\* (variant: the block of a service starts at 10 + 4 * its index)
service_field_blocks_of_four(results, index) ==
    LET service_index == (index - 10) \div 4
        field_index == (index - 10) % 5
    IN  IF index >= 10 /\ service_index < Len(results)
        THEN LET service == results[service_index + 1] IN
             CASE field_index = 0 -> service.display_name
               [] field_index = 1 -> service.status
               [] field_index = 2 -> service.elapsed
               [] field_index = 3 -> service.label
               [] OTHER -> service.symbol
        ELSE <<"u", "n", "d", "e", "f", "i", "n", "e", "d">>

\* the default case of the replacer: a field of one service, and the text
\* undefined for an index that names none
service_field(results, index) ==
    LET service_index == (index - 10) \div 5
        field_index == (index - 10) % 5
    IN  IF index >= 10 /\ service_index < Len(results)
        THEN LET service == results[service_index + 1] IN
             CASE field_index = 0 -> service.display_name
               [] field_index = 1 -> service.status
               [] field_index = 2 -> service.elapsed
               [] field_index = 3 -> service.label
               [] OTHER -> service.symbol
        ELSE <<"u", "n", "d", "e", "f", "i", "n", "e", "d">>

\* the replacer of the aggregate grammar: what token {index} is replaced by
sd_token(results, index) ==
    CASE index = 0 ->
            <<"[">> \o Join([i \in 1..Len(results) |-> JsonStatus(results[i])],
                           <<",">>) \o <<"]">>
      [] index = 1 -> NumStr(Len(results))
      [] index = 2 -> NumStr(CountStatus(results, "active"))
      [] index = 3 -> NumStr(CountStatus(results, "failed"))
      [] index = 4 -> NumStr(CountStatus(results, "inactive"))
      [] index = 5 ->
            Join([i \in 1..Len(results) |->
                    results[i].display_name \o <<":">> \o results[i].label],
                 <<",">>)
      [] index = 6 ->
            Join([i \in 1..Len(results) |->
                    results[i].display_name \o <<":">> \o results[i].elapsed],
                 <<",">>)
      [] index = 7 ->
            Join([i \in 1..Len(results) |->
                    results[i].symbol \o <<" ">> \o results[i].display_name],
                 <<",", " ">>)
      [] index = 8 -> summary(results)
      [] OTHER -> service_field(results, index)

\* the end of the longest run of digits that starts at i
DigitsEnd(format, i) ==
    LET end[k \in i..(Len(format) + 1)] ==
          IF k <= Len(format) /\ IsDigit(format[k]) THEN end[k + 1] ELSE k
    IN  end[i]

\* format.replace(/{(\d+)}/g, ...); from[i] is what the characters of the
\* format from the i-th on become
sd_replace(results, format) ==
    LET from[i \in 1..(Len(format) + 1)] ==
          IF i > Len(format) THEN <<>>
          ELSE IF format[i] # "{" THEN <<format[i]>> \o from[i + 1]
          ELSE LET j == DigitsEnd(format, i + 1) IN
               IF j > i + 1 /\ j <= Len(format) /\ format[j] = "}"
               THEN sd_token(results, parseInt(SubSeq(format, i + 1, j - 1)))
                    \o from[j + 1]
               ELSE <<format[i]>> \o from[i + 1]
    IN  from[1]

\* the result the systemd sample fulfils with
sd_result(p, format) ==
    [value |-> sd_replace(p.status_cache, format),
     min |-> 0,
     max |-> Len(p.status_cache)]

\* ------------------------------------------------------------------------
\* Construction
\* ------------------------------------------------------------------------
\* config?.key ?? fallback: a configuration is a function from the keys it
\* sets to their values
ConfigOr(config, key, fallback) ==
    IF key \in DOMAIN config THEN config[key] ELSE fallback

\* a configuration that is null or undefined rather than an object: reading
\* a key of it through ?. gives undefined, assigning a key of it throws
NullConfig == [nullish |-> "null"]

UndefinedConfig == [nullish |-> "undefined"]

IsNullish(config) == "nullish" \in DOMAIN config

\* the fresh state init builds
exec_private(config) ==
    [name |-> config["name"],
     command |-> config["command"],
     separator |-> ConfigOr(config, "separator", ";"),
     timeout |-> ConfigOr(config, "timeout", 5000),
     csv |-> ConfigOr(config, "csv", FALSE),
     lines |-> ConfigOr(config, "lines", 100),
     headers |-> <<>>,
     rows |-> <<>>,
     row_count |-> 0,
     raw_lines |-> <<>>,
     line_count |-> 0,
     exit_code |-> JsNum(-1),
     last_success |-> FALSE,
     last_sampled |-> 0]

\* (variant: init does not require a command)
exec_init_without_command_check(config) ==
    IF ConfigOr(config, "name", <<>>) = <<>>
    THEN [ok |-> FALSE, threw |-> FALSE]
    ELSE [ok |-> TRUE, threw |-> FALSE,
          identity |-> <<"e", "x", "e", "c", "_">> \o config["name"],
          private |-> exec_private(config @@ [command |-> <<>>])]

\* exec init: ok is FALSE when init returns null and installs no state; a
\* key whose value is null is a key that is absent (! and ?? treat the two
\* alike); threw is TRUE when init throws instead of returning
exec_init(config) ==
    IF ConfigOr(config, "name", <<>>) = <<>>
       \/ ConfigOr(config, "command", <<>>) = <<>>
    THEN [ok |-> FALSE, threw |-> FALSE]
    ELSE [ok |-> TRUE, threw |-> FALSE,
          identity |-> <<"e", "x", "e", "c", "_">> \o config["name"],
          private |-> exec_private(config)]

\* systemd init; strip_prefix is <<>> for null; a key whose value is null
\* or empty is a key that is absent (|| treats them alike). The state is
\* built and the services are logged, then the assignment of
\* config._private throws a TypeError when config is null or undefined
sd_init(config) ==
    IF IsNullish(config)
    THEN [ok |-> FALSE, threw |-> TRUE]
    ELSE
    [ok |-> TRUE, threw |-> FALSE,
     identity |-> <<"s", "y", "s", "t", "e", "m", "d", "_">>
                    \o (IF ConfigOr(config, "name", <<>>) = <<>>
                        THEN <<"d", "e", "f", "a", "u", "l", "t">>
                        ELSE config["name"]),
     private |->
        [name |-> IF ConfigOr(config, "name", <<>>) = <<>>
                  THEN <<"d", "e", "f", "a", "u", "l", "t">>
                  ELSE config["name"],
         services |-> ConfigOr(config, "services", <<>>),
         strip_prefix |-> ConfigOr(config, "strip_prefix", <<>>),
         status_cache |-> <<>>,
         last_sampled |-> 0]]

\* ------------------------------------------------------------------------
\* The rate gate and the cache update of sample
\* ------------------------------------------------------------------------
\* (variant: the gate opens as soon as rate milliseconds have elapsed)
sample_gate_at_rate(p, time, rate) ==
    p.last_sampled = 0 \/ time - p.last_sampled >= rate

\* the decision of sample, exec and systemd alike:
\* !_private.last_sampled || _diff > rate
sample_gate(p, time, rate) ==
    p.last_sampled = 0 \/ time - p.last_sampled > rate

\* (variant: the timestamp is not taken when the fetch starts)
sample_begin_unstamped(p, time, rate) == p

\* (variant: the timestamp is taken by every call)
sample_begin_always_stamped(p, time, rate) == [p EXCEPT !.last_sampled = time]

\* the synchronous part of sample: the private state it leaves
sample_begin(p, time, rate) ==
    IF sample_gate(p, time, rate) THEN [p EXCEPT !.last_sampled = time] ELSE p

\* (variant: a success does not clear the fault flag)
execute_command_sticky_fault(fault_flag, outcome) ==
    IF outcome.error
    THEN [fault |-> TRUE,
          logged |-> ~fault_flag,
          settled |-> TRUE,
          result |-> [success |-> FALSE,
                      exit_code |-> IF outcome.code.t # "undefined"
                                    THEN outcome.code ELSE JsNum(-1),
                      stdout |-> outcome.stdout]]
    ELSE [fault |-> fault_flag,
          logged |-> FALSE,
          settled |-> TRUE,
          result |-> [success |-> TRUE,
                      exit_code |-> JsNum(0),
                      stdout |-> outcome.stdout]]

\* the callback exec hands its outcome to in execute_command: the new fault
\* flag, whether logger.error was called, whether the promise was
\* fulfilled, and the result it was fulfilled with
execute_command(fault_flag, outcome) ==
    IF outcome.error
    THEN [fault |-> TRUE,
          logged |-> ~fault_flag,
          settled |-> TRUE,
          result |-> [success |-> FALSE,
                      exit_code |-> IF outcome.code.t # "undefined"
                                    THEN outcome.code ELSE JsNum(-1),
                      stdout |-> outcome.stdout]]
    ELSE [fault |-> FALSE,
          logged |-> FALSE,
          settled |-> TRUE,
          result |-> [success |-> TRUE,
                      exit_code |-> JsNum(0),
                      stdout |-> outcome.stdout]]

\* (variant: a failed fetch empties the cache)
exec_update_reset(p, result) ==
    IF result.success
    THEN IF p.csv
         THEN LET parsed == parse_csv_output(result.stdout, p.separator) IN
              [p EXCEPT !.exit_code = result.exit_code,
                        !.headers = parsed.headers,
                        !.rows = parsed.rows,
                        !.row_count = parsed.row_count,
                        !.last_success = TRUE]
         ELSE LET parsed == parse_raw_output(result.stdout, p.lines) IN
              [p EXCEPT !.exit_code = result.exit_code,
                        !.raw_lines = parsed.lines,
                        !.line_count = parsed.line_count,
                        !.last_success = TRUE]
    ELSE [p EXCEPT !.exit_code = result.exit_code, !.last_success = FALSE,
                   !.headers = <<>>, !.rows = <<>>, !.row_count = 0,
                   !.raw_lines = <<>>, !.line_count = 0]

\* (variant: the output of a failed command is parsed and cached too)
exec_update_partial(p, result) ==
    LET q == IF p.csv
             THEN LET parsed == parse_csv_output(result.stdout, p.separator) IN
                  [p EXCEPT !.exit_code = result.exit_code,
                            !.headers = parsed.headers,
                            !.rows = parsed.rows,
                            !.row_count = parsed.row_count]
             ELSE LET parsed == parse_raw_output(result.stdout, p.lines) IN
                  [p EXCEPT !.exit_code = result.exit_code,
                            !.raw_lines = parsed.lines,
                            !.line_count = parsed.line_count]
    IN  [q EXCEPT !.last_success = result.success]

\* (variant: a failed fetch records its exit code and leaves last_success)
exec_update_success_kept(p, result) ==
    IF result.success
    THEN IF p.csv
         THEN LET parsed == parse_csv_output(result.stdout, p.separator) IN
              [p EXCEPT !.exit_code = result.exit_code,
                        !.headers = parsed.headers,
                        !.rows = parsed.rows,
                        !.row_count = parsed.row_count,
                        !.last_success = TRUE]
         ELSE LET parsed == parse_raw_output(result.stdout, p.lines) IN
              [p EXCEPT !.exit_code = result.exit_code,
                        !.raw_lines = parsed.lines,
                        !.line_count = parsed.line_count,
                        !.last_success = TRUE]
    ELSE [p EXCEPT !.exit_code = result.exit_code]

\* the cache update of the exec sample for a fetch it started
exec_update(p, result) ==
    IF result.success
    THEN IF p.csv
         THEN LET parsed == parse_csv_output(result.stdout, p.separator) IN
              [p EXCEPT !.exit_code = result.exit_code,
                        !.headers = parsed.headers,
                        !.rows = parsed.rows,
                        !.row_count = parsed.row_count,
                        !.last_success = TRUE]
         ELSE LET parsed == parse_raw_output(result.stdout, p.lines) IN
              [p EXCEPT !.exit_code = result.exit_code,
                        !.raw_lines = parsed.lines,
                        !.line_count = parsed.line_count,
                        !.last_success = TRUE]
    ELSE [p EXCEPT !.exit_code = result.exit_code, !.last_success = FALSE]

\* the cache update of the systemd sample for a fetch it started
sd_update(p, results) == [p EXCEPT !.status_cache = results]

\* (variant: the array of statuses is in the reverse of the services' order)
get_all_services_status_reversed(services, statuses) ==
    [m \in 1..Len(services) |-> statuses[Len(services) + 1 - m]]

\* what get_all_services_status fulfils with once the status query of every
\* service has: Promise.all keeps the order of services.map, whatever order
\* the queries ended in; statuses[m] is the record of the query of service m
get_all_services_status(services, statuses) ==
    [m \in 1..Len(services) |-> statuses[m]]

\* ------------------------------------------------------------------------
\* The configured instances and the inputs of the model
\* ------------------------------------------------------------------------
ExecInsts == {"e1", "e2"}

SdInsts == {"s1"}

\* e1 is tabular with the default separator, e2 line-oriented keeping the
\* last two lines
ExecConfig(i) ==
    IF i = "e1"
    THEN [name |-> <<"a">>, command |-> <<"c", "m", "d">>, csv |-> TRUE]
    ELSE [name |-> <<"b">>, command |-> <<"c", "m", "d">>, lines |-> 2]

SdConfig(i) ==
    [name |-> <<"m">>,
     services |-> << <<"s1panel", "-", "web">>, <<"cron">> >>,
     strip_prefix |-> <<"s1panel">>]

\* the rates (milliseconds) the host passes
Rates == {1, 2}

\* what a command writes to standard output
ExecStdouts ==
    { <<"a", ";", "b", "\n", "1", ";", "2", "\n">>,
      <<"a", ";", "b", "\n", " ", "3", ";", "4", " ", "\n", "\n", "5", "\n">> }

\* error.code of a failed exec: the exit code, null when the child was
\* killed (timeout), an error name (spawn error, output overflow)
ErrorCodes ==
    {JsNum(2), JsNull, JsStr(<<"ENOENT">>)}

\* what exec reports to the callback of execute_command
ExecOutcomes ==
    [error : {FALSE}, code : {JsNum(0)}, stdout : ExecStdouts]
        \cup [error : {TRUE}, code : ErrorCodes,
              stdout : {<<"a", ";", "b", "\n", "9", ";", "9", "\n">>}]

ExecFormats ==
    { <<"{", "e", "x", "i", "t", "_", "c", "o", "d", "e", "}", " ",
        "{", "0", "}", "{", "0", ".", "b", "}">> }

\* what systemctl show writes, and whether exec reports an error
SdOutcomes ==
    { [error |-> FALSE,
       stdout |-> <<"ActiveState", "=", "active", "\n",
                    "ActiveEnterTimestamp", "=", "Tue", " ", "2025-12-02",
                    " ", "00:01:40", " ", "CET", "\n">>],
      [error |-> FALSE,
       stdout |-> <<"ActiveState", "=", "failed", "\n",
                    "InactiveEnterTimestamp", "=", "\n",
                    "StateChangeTimestamp", "=", "Tue", " ", "2025-12-02",
                    " ", "00:03:10", " ", "CET", "\n">>],
      [error |-> TRUE, stdout |-> <<>>] }

\* Date.now() (milliseconds from the model's epoch) when a status arrives
DateNows == {190000}

SdFormats == { <<"{", "8", "}", " ", "{", "1", "0", "}", ":", "{", "1", "2", "}">> }

\* ------------------------------------------------------------------------
\* State
\* ------------------------------------------------------------------------
VARIABLES
    enabled,      \* the instances the host's configuration enables
    now,          \* Math.floor(Number(process.hrtime.bigint()) / 1000000)
    xpriv,        \* exec: config._private of each instance
    fault,        \* exec: the module variable _fault
    xfetch,       \* exec: the commands running, each with the call awaiting it
    spriv,        \* systemd: config._private of each instance
    sfetch,       \* systemd: the fan-outs running, with the statuses so far
    micro,        \* the promise reactions queued by calls that fetch nothing
    ncalls,       \* the number of sample calls the host has made
    last,         \* the result most recently fulfilled to the host, with
                  \* the call it answers: its number, instance and format,
                  \* and whether the call fetched or rendered the cache
    fulfilled,    \* the calls whose promise is fulfilled
    event,        \* history: what the latest step did
    hist,         \* history: per instance, its fetches so far
    lastdone      \* history: how the latest exec command of all ended

vars == <<enabled, now, xpriv, fault, xfetch, spriv, sfetch, micro, ncalls,
          last, fulfilled, event, hist, lastdone>>

\* hist[i].starts: the times at which a fetch of i was started;
\* hist[i].done: how many fetches of i have completed; hist[i].ever_ok:
\* one of them succeeded; hist[i].last_ok: the latest one succeeded
Init ==
    /\ enabled \in {ExecInsts, SdInsts}
    /\ now = 1
    /\ xpriv = [i \in enabled \cap ExecInsts |->
                   exec_init(ExecConfig(i)).private]
    /\ fault = FALSE
    /\ xfetch = {}
    /\ spriv = [i \in enabled \cap SdInsts |-> sd_init(SdConfig(i)).private]
    /\ sfetch = {}
    /\ micro = <<>>
    /\ ncalls = 0
    /\ last = [id |-> 0, inst |-> "none", kind |-> "none", format |-> <<>>,
               value |-> <<>>, min |-> 0, max |-> 0]
    /\ fulfilled = {}
    /\ event = [type |-> "init"]
    /\ hist = [i \in enabled |->
                 [starts |-> {}, done |-> 0, ever_ok |-> FALSE,
                  last_ok |-> TRUE]]
    /\ lastdone = "none"

\* time passes
Tick ==
    /\ now < MaxTime
    /\ now' = now + 1
    /\ event' = [type |-> "tick"]
    /\ UNCHANGED <<enabled, xpriv, fault, xfetch, spriv, sfetch, micro,
                   ncalls, last, fulfilled, hist, lastdone>>

\* (variant: a call that starts no fetch while a command of the instance is
\* running waits for that command instead of rendering at once)
SampleExec_joining(i, rate, format) ==
    LET id == ncalls + 1
        dirty == sample_gate(xpriv[i], now, rate)
    IN  /\ i \in enabled
        /\ ncalls < MaxCalls
        /\ ncalls' = id
        /\ xpriv' = [xpriv EXCEPT ![i] = sample_begin(@, now, rate)]
        /\ IF dirty
           THEN /\ \E ends \in BOOLEAN :
                     xfetch' = xfetch \cup
                        {[id |-> id, inst |-> i, format |-> format,
                          ends |-> ends]}
                /\ micro' = micro
                /\ hist' = [hist EXCEPT ![i].starts = @ \cup {now}]
           ELSE /\ micro' = IF \E f \in xfetch : f.inst = i THEN micro
                            ELSE Append(micro,
                                   [id |-> id, inst |-> i, format |-> format])
                /\ xfetch' = xfetch
                /\ hist' = hist
        /\ event' = [type |-> "call", id |-> id, inst |-> i, rate |-> rate,
                     dirty |-> dirty]
        /\ UNCHANGED <<enabled, now, fault, spriv, sfetch, last, fulfilled,
                       lastdone>>

\* the host calls the exec sample(rate, format, config): the gate, the
\* timestamp and, when due, the start of the command. The command started
\* is one that ends (by itself, or by the signal of exec's timeout or
\* output bound) or one that never does: the signal is sent once and a
\* command can ignore it, and a timeout of 0 sets no timer
SampleExec(i, rate, format) ==
    LET id == ncalls + 1
        dirty == sample_gate(xpriv[i], now, rate)
    IN  /\ i \in enabled
        /\ ncalls < MaxCalls
        /\ ncalls' = id
        /\ xpriv' = [xpriv EXCEPT ![i] = sample_begin(@, now, rate)]
        /\ IF dirty
           THEN /\ \E ends \in BOOLEAN :
                     xfetch' = xfetch \cup
                        {[id |-> id, inst |-> i, format |-> format,
                          ends |-> ends]}
                /\ micro' = micro
                /\ hist' = [hist EXCEPT ![i].starts = @ \cup {now}]
           ELSE /\ micro' = Append(micro,
                      [id |-> id, inst |-> i, format |-> format])
                /\ xfetch' = xfetch
                /\ hist' = hist
        /\ event' = [type |-> "call", id |-> id, inst |-> i, rate |-> rate,
                     dirty |-> dirty]
        /\ UNCHANGED <<enabled, now, fault, spriv, sfetch, last, fulfilled,
                       lastdone>>

\* a command ends: the callback of execute_command, then (a microtask of
\* the same turn, once the promise of execute_command is fulfilled) the
\* reaction of the sample that started it
ExecCallback(f, outcome) ==
    LET done == execute_command(fault, outcome) IN
    /\ micro = <<>>
    /\ f.ends
    /\ xfetch' = xfetch \ {f}
    /\ fault' = done.fault
    /\ event' = [type |-> "done", id |-> f.id, inst |-> f.inst,
                 ok |-> ~outcome.error, logged |-> done.logged,
                 stdout |-> outcome.stdout, format |-> f.format,
                 code |-> outcome.code]
    /\ hist' = [hist EXCEPT ![f.inst].done = @ + 1,
                            ![f.inst].ever_ok = @ \/ ~outcome.error,
                            ![f.inst].last_ok = ~outcome.error]
    /\ lastdone' = IF outcome.error THEN "failed" ELSE "ok"
    /\ IF done.settled
       THEN /\ fulfilled' = fulfilled \cup {f.id}
            /\ xpriv' = [xpriv EXCEPT ![f.inst] = exec_update(@, done.result)]
            /\ last' = [id |-> f.id, inst |-> f.inst, kind |-> "fetch",
                         format |-> f.format]
                          @@ exec_result(xpriv'[f.inst], f.format)
       ELSE UNCHANGED <<xpriv, last, fulfilled>>
    /\ UNCHANGED <<enabled, now, spriv, sfetch, micro, ncalls>>

\* the host calls the systemd sample(rate, format, config): the gate, the
\* timestamp and, when due, one status query per configured service. The
\* queries run without a timeout: each of them ends or (hung) never does,
\* whatever the others do
SampleSd(i, rate, format) ==
    LET id == ncalls + 1
        dirty == sample_gate(spriv[i], now, rate)
    IN  /\ i \in enabled
        /\ ncalls < MaxCalls
        /\ ncalls' = id
        /\ spriv' = [spriv EXCEPT ![i] = sample_begin(@, now, rate)]
        /\ IF dirty
           THEN /\ \E hung \in SUBSET (1..Len(spriv[i].services)) :
                     sfetch' = sfetch \cup
                        {[id |-> id, inst |-> i, format |-> format,
                          results |-> [k \in {} |-> <<>>], failed |-> {},
                          hung |-> hung]}
                /\ micro' = micro
                /\ hist' = [hist EXCEPT ![i].starts = @ \cup {now}]
           ELSE /\ micro' = Append(micro,
                      [id |-> id, inst |-> i, format |-> format])
                /\ sfetch' = sfetch
                /\ hist' = hist
        /\ event' = [type |-> "call", id |-> id, inst |-> i, rate |-> rate,
                     dirty |-> dirty]
        /\ UNCHANGED <<enabled, now, xpriv, fault, xfetch, last, fulfilled,
                       lastdone>>

\* the status query of service k of a fan-out ends: the callback of
\* get_service_status; when it is the last one of the fan-out, Promise.all
\* and the reaction of the sample follow in the same turn
ServiceCallback(f, k, outcome, date_now) ==
    LET p == spriv[f.inst]
        status == get_service_status(p.services[k], p.strip_prefix,
                                     outcome.stdout, date_now)
        results == [m \in DOMAIN f.results \cup {k} |->
                       IF m = k THEN status ELSE f.results[m]]
        failed == IF outcome.error THEN f.failed \cup {k} ELSE f.failed
        q == sd_update(p, get_all_services_status(p.services, results))
    IN  /\ micro = <<>>
        /\ k \in (1..Len(p.services)) \ DOMAIN f.results
        /\ k \notin f.hung
        /\ IF DOMAIN results = 1..Len(p.services)
           THEN /\ sfetch' = sfetch \ {f}
                /\ fulfilled' = fulfilled \cup {f.id}
                /\ event' = [type |-> "done", id |-> f.id, inst |-> f.inst,
                             ok |-> failed = {}, logged |-> FALSE, k |-> k,
                             format |-> f.format]
                /\ hist' = [hist EXCEPT ![f.inst].done = @ + 1,
                                        ![f.inst].ever_ok = @ \/ failed = {},
                                        ![f.inst].last_ok = (failed = {})]
                /\ spriv' = [spriv EXCEPT ![f.inst] = q]
                /\ last' = [id |-> f.id, inst |-> f.inst, kind |-> "fetch",
                             format |-> f.format]
                              @@ sd_result(spriv'[f.inst], f.format)
           ELSE /\ event' = [type |-> "status", id |-> f.id, inst |-> f.inst,
                             k |-> k]
                /\ sfetch' = (sfetch \ {f}) \cup
                      {[f EXCEPT !.results = results, !.failed = failed]}
                /\ UNCHANGED <<spriv, last, fulfilled, hist>>
        /\ UNCHANGED <<enabled, now, xpriv, fault, xfetch, micro, ncalls,
                       lastdone>>

\* (variant: the render reverses the cached rows, lines and status records
\* in place)
SampleThen_reversing ==
    /\ micro # <<>>
    /\ micro' = Tail(micro)
    /\ LET c == Head(micro)
           rev(a) == [k \in 1..Len(a) |-> a[Len(a) + 1 - k]]
       IN
         /\ fulfilled' = fulfilled \cup {c.id}
         /\ event' = [type |-> "then", id |-> c.id, inst |-> c.inst,
                      format |-> c.format, prev |-> last]
         /\ last' = [id |-> c.id, inst |-> c.inst, kind |-> "cache",
                      format |-> c.format]
                      @@ (IF c.inst \in ExecInsts
                          THEN exec_result(xpriv[c.inst], c.format)
                          ELSE sd_result(spriv[c.inst], c.format))
         /\ xpriv' = [i \in DOMAIN xpriv |->
                        IF i = c.inst
                        THEN [xpriv[i] EXCEPT !.rows = rev(@),
                                              !.raw_lines = rev(@)]
                        ELSE xpriv[i]]
         /\ spriv' = [i \in DOMAIN spriv |->
                        IF i = c.inst
                        THEN [spriv[i] EXCEPT !.status_cache = rev(@)]
                        ELSE spriv[i]]
    /\ UNCHANGED <<enabled, now, fault, xfetch, sfetch, ncalls, hist,
                   lastdone>>

\* the reaction of a sample call that started no fetch: it renders the
\* cache as it is and fulfils
SampleThen ==
    /\ micro # <<>>
    /\ micro' = Tail(micro)
    /\ LET c == Head(micro) IN
         /\ fulfilled' = fulfilled \cup {c.id}
         /\ event' = [type |-> "then", id |-> c.id, inst |-> c.inst,
                      format |-> c.format, prev |-> last]
         /\ last' = [id |-> c.id, inst |-> c.inst, kind |-> "cache",
                      format |-> c.format]
                      @@ (IF c.inst \in ExecInsts
                          THEN exec_result(xpriv[c.inst], c.format)
                          ELSE sd_result(spriv[c.inst], c.format))
    /\ UNCHANGED <<enabled, now, xpriv, fault, xfetch, spriv, sfetch, ncalls,
                   hist, lastdone>>

Next ==
    \/ Tick
    \/ \E i \in ExecInsts, rate \in Rates, format \in ExecFormats :
          SampleExec(i, rate, format)
    \/ \E f \in xfetch, outcome \in ExecOutcomes : ExecCallback(f, outcome)
    \/ \E i \in SdInsts, rate \in Rates, format \in SdFormats :
          SampleSd(i, rate, format)
    \/ \E f \in sfetch, k \in 1..2, outcome \in SdOutcomes,
          date_now \in DateNows :
          ServiceCallback(f, k, outcome, date_now)
    \/ SampleThen

Spec == Init /\ [][Next]_vars

\* exec calls back for every command and every status query that ends, and
\* the event loop runs every queued promise reaction; nothing makes a
\* command or a query end that does not
FairSpec ==
    /\ Spec
    /\ WF_vars(SampleThen)
    /\ \A id \in 1..MaxCalls :
          /\ WF_vars(\E f \in xfetch, outcome \in ExecOutcomes :
                        f.id = id /\ ExecCallback(f, outcome))
          /\ WF_vars(\E f \in sfetch, k \in 1..2, outcome \in SdOutcomes,
                        date_now \in DateNows :
                        f.id = id /\ ServiceCallback(f, k, outcome, date_now))

\* ------------------------------------------------------------------------
\* init applied to the configurations the host can hand it
\* ------------------------------------------------------------------------
\* no key at all
NoKeys == [k \in {} |-> 0]

\* the exec configurations: every key absent (or null), empty or set
ExecInitConfigs ==
    { n @@ c @@ v @@ s @@ l :
        n \in {NoKeys, [name |-> <<>>], [name |-> <<"a">>]},
        c \in {NoKeys, [command |-> <<>>], [command |-> <<"c", "m", "d">>]},
        v \in {NoKeys, [csv |-> TRUE], [csv |-> FALSE]},
        s \in {NoKeys, [separator |-> ","]},
        l \in {NoKeys, [lines |-> 0], [lines |-> 2]} }
      \cup {NullConfig, UndefinedConfig}

\* the systemd configurations
SdInitConfigs ==
    { n @@ v @@ s :
        n \in {NoKeys, [name |-> <<>>], [name |-> <<"m">>]},
        v \in {NoKeys, [services |-> <<>>],
               [services |-> << <<"cron">> >>],
               [services |-> << <<"s1panel", "-", "web">>, <<"cron">> >>]},
        s \in {NoKeys, [strip_prefix |-> <<>>],
               [strip_prefix |-> <<"s1panel">>]} }
      \cup {NullConfig, UndefinedConfig}

\* nothing is sampled, running or rendered
Quiet ==
    /\ now = 1
    /\ fault = FALSE
    /\ xfetch = {}
    /\ sfetch = {}
    /\ micro = <<>>
    /\ ncalls = 0
    /\ last = [id |-> 0, inst |-> "none", kind |-> "none", format |-> <<>>,
               value |-> <<>>, min |-> 0, max |-> 0]
    /\ fulfilled = {}
    /\ lastdone = "none"

\* the host holds a configuration of one sensor and has not called init
Unconfigured ==
    /\ Quiet
    /\ enabled = {}
    /\ xpriv = [i \in {} |-> 0]
    /\ spriv = [i \in {} |-> 0]
    /\ hist = [i \in {} |-> 0]
    /\ event \in [type : {"config"}, sensor : {"exec"},
                  config : ExecInitConfigs]
                   \cup [type : {"config"}, sensor : {"systemd"},
                         config : SdInitConfigs]

\* the host calls the exec init(config): the instance e1 exists once
\* config._private is assigned
ExecInit ==
    LET r == exec_init(event.config) IN
    /\ event.type = "config"
    /\ event.sensor = "exec"
    /\ event' = [type |-> "init", sensor |-> "exec",
                 config |-> event.config, result |-> r]
    /\ IF r.ok
       THEN /\ enabled' = {"e1"}
            /\ xpriv' = [i \in {"e1"} |-> r.private]
       ELSE UNCHANGED <<enabled, xpriv>>
    /\ UNCHANGED <<now, fault, xfetch, spriv, sfetch, micro, ncalls, last,
                   fulfilled, hist, lastdone>>

\* the host calls the systemd init(config)
SdInit ==
    LET r == sd_init(event.config) IN
    /\ event.type = "config"
    /\ event.sensor = "systemd"
    /\ event' = [type |-> "init", sensor |-> "systemd",
                 config |-> event.config, result |-> r]
    /\ IF r.ok
       THEN /\ enabled' = {"s1"}
            /\ spriv' = [i \in {"s1"} |-> r.private]
       ELSE UNCHANGED <<enabled, spriv>>
    /\ UNCHANGED <<now, fault, xfetch, xpriv, sfetch, micro, ncalls, last,
                   fulfilled, hist, lastdone>>

InitNext == ExecInit \/ SdInit

InitSpec == Unconfigured /\ [][InitNext]_vars

\* ------------------------------------------------------------------------
\* The parsers applied to what a command can write
\* ------------------------------------------------------------------------
\* the longest line handed to the line splitter
MaxLineLen == 5

\* the most lines a command writes
MaxOutputLines == 3

\* the sequences over S of length n at most
SeqsUpTo(S, n) == UNION {[1..k -> S] : k \in 0..n}

\* the lines handed to parse_csv_line: every short line of field
\* characters, separators, double quotes and blanks
CsvLines ==
    SeqsUpTo({"x", ",", "\"", " "}, MaxLineLen)
        \cup { <<"x", ",", "\"", "a", ",", "b", "\"", ",", "y">> }

\* the lines a command writes
OutputLines ==
    { <<>>, <<" ">>, <<"a">>, <<"a", ";", "b">>, <<"a", ";", "a">>,
      <<"1">>, <<"1", ";", "2">>, <<"1", ";", "2", ";", "3">>,
      <<" ", "b", " ">>,
      <<"_", "_", "p", "r", "o", "t", "o", "_", "_", ";", "a">> }

\* what a command writes: its lines, a newline between two of them
Outputs ==
    {Join(lines, <<"\n">>) : lines \in SeqsUpTo(OutputLines, MaxOutputLines)}

\* a parser is about to be applied to an input
ParseInput ==
    /\ Quiet
    /\ enabled = {}
    /\ xpriv = [i \in {} |-> 0]
    /\ spriv = [i \in {} |-> 0]
    /\ hist = [i \in {} |-> 0]
    /\ event \in [type : {"input"}, fn : {"parse_csv_line"},
                  line : CsvLines, separator : {","}]
                   \cup [type : {"input"}, fn : {"parse_csv_output"},
                         output : Outputs, separator : {";"}]
                   \cup [type : {"input"}, fn : {"parse_raw_output"},
                         output : Outputs, max_lines : {0, 1, 2, 100}]

ParseCsvLine ==
    /\ event.type = "input"
    /\ event.fn = "parse_csv_line"
    /\ event' = [type |-> "output", fn |-> event.fn, line |-> event.line,
                 separator |-> event.separator,
                 result |-> parse_csv_line(event.line, event.separator)]
    /\ UNCHANGED <<enabled, now, xpriv, fault, xfetch, spriv, sfetch, micro,
                   ncalls, last, fulfilled, hist, lastdone>>

ParseCsvOutput ==
    /\ event.type = "input"
    /\ event.fn = "parse_csv_output"
    /\ event' = [type |-> "output", fn |-> event.fn,
                 output |-> event.output, separator |-> event.separator,
                 result |-> parse_csv_output(event.output, event.separator)]
    /\ UNCHANGED <<enabled, now, xpriv, fault, xfetch, spriv, sfetch, micro,
                   ncalls, last, fulfilled, hist, lastdone>>

ParseRawOutput ==
    /\ event.type = "input"
    /\ event.fn = "parse_raw_output"
    /\ event' = [type |-> "output", fn |-> event.fn,
                 output |-> event.output, max_lines |-> event.max_lines,
                 result |-> parse_raw_output(event.output, event.max_lines)]
    /\ UNCHANGED <<enabled, now, xpriv, fault, xfetch, spriv, sfetch, micro,
                   ncalls, last, fulfilled, hist, lastdone>>

ParseNext == ParseCsvLine \/ ParseCsvOutput \/ ParseRawOutput

ParseSpec == ParseInput /\ [][ParseNext]_vars

\* ------------------------------------------------------------------------
\* The first sample of an instance, for the tokens a format can hold
\* ------------------------------------------------------------------------
\* the keywords of the tabular grammar
CsvKeywords ==
    { <<"s", "u", "c", "c", "e", "s", "s">>,
      <<"e", "x", "i", "t", "_", "c", "o", "d", "e">>,
      <<"c", "o", "l", "u", "m", "n", "s">>, <<"r", "o", "w", "s">>,
      <<"h", "e", "a", "d", "e", "r", "s">>, <<"j", "s", "o", "n">> }

\* the keywords of the line grammar
RawKeywords ==
    { <<"s", "u", "c", "c", "e", "s", "s">>,
      <<"e", "x", "i", "t", "_", "c", "o", "d", "e">>,
      <<"l", "i", "n", "e", "s">>, <<"a", "l", "l">>, <<"j", "s", "o", "n">> }

\* token bodies: the keywords of both grammars, row and line indices,
\* cells, and names that are none of these
RenderBodies ==
    {
      <<"s", "u", "c", "c", "e", "s", "s">>,
      <<"e", "x", "i", "t", "_", "c", "o", "d", "e">>,
      <<"c", "o", "l", "u", "m", "n", "s">>, <<"r", "o", "w", "s">>,
      <<"h", "e", "a", "d", "e", "r", "s">>, <<"j", "s", "o", "n">>,
      <<"l", "i", "n", "e", "s">>, <<"a", "l", "l">>, <<"0">>, <<"1">>,
      <<"2">>, <<"9">>, <<"0", ".", "a">>, <<"0", ".", "b">>,
      <<"1", ".", "b">>, <<"0", ".", "z">>, <<"9", ".", "a">>,
      <<"0", ".", "c", "o", "n", "s", "t", "r", "u", "c", "t", "o", "r">>,
      <<"0", ".", "_", "_", "p", "r", "o", "t", "o", "_", "_">>,
      <<"w", "h", "a", "t">>, <<"1", "x">> }

\* the token {body} with text on both sides
Wrap(body) == <<"<", "{">> \o body \o <<"}", ">">>

\* the body of the token of such a format
Unwrap(format) == SubSeq(format, 3, Len(format) - 2)

\* a table whose fields are themselves tokens: {rows} and {0}
TokenTable ==
    [headers |-> <<<<"a">>, <<"b">>>>,
     rows |-> <<<<<<"{", "r", "o", "w", "s", "}">>, <<"{", "0", "}">>>>>>]

\* the tables a command writes
RenderTables ==
    { [headers |-> <<<<"a">>, <<"b">>, <<"c">>>>,
       rows |-> <<<<<<"1">>, <<"2">>, <<"3">>>>>>],
      [headers |-> <<<<"a">>, <<"b">>>>,
       rows |-> <<<<<<"1">>, <<"2">>>>, <<<<"3">>, <<"4">>>>>>],
      [headers |-> <<<<"a">>, <<"a">>>>,
       rows |-> <<<<<<"1">>, <<"2">>>>>>],
      [headers |-> <<<<"a">>, <<"b">>, <<"a">>>>,
       rows |-> <<<<<<"1">>, <<"2">>, <<"3">>>>,
                  <<<<"4">>, <<"5">>, <<"6">>>>>>],
      [headers |-> <<<<"x", ".", "y">>, <<"b">>>>,
       rows |-> <<<<<<"7">>, <<"8">>>>>>],
      [headers |-> <<<<"_", "_", "p", "r", "o", "t", "o", "_", "_">>, <<"a">>>>,
       rows |-> <<<<<<"x">>, <<"y">>>>>>],
      \* names that are array indices (10, 9) and one past the last index
      [headers |-> <<<<"z">>,
                     <<"4", "2", "9", "4", "9", "6", "7", "2", "9", "5">>,
                     <<"1", "0">>, <<"9">>>>,
       rows |-> <<<<<<"p">>, <<"q">>, <<"r">>, <<"s">>>>>>],
      TokenTable }

\* a table as the command writes it: a line of header names, a line per
\* row, the fields of a line separated by sep
TableText(t, sep) ==
    Join(<<Join(t.headers, <<sep>>)>>
            \o [r \in 1..Len(t.rows) |-> Join(t.rows[r], <<sep>>)],
         <<"\n">>) \o <<"\n">>

RenderOutcomes ==
    [error : {FALSE}, code : {JsNum(0)},
     stdout : {TableText(t, ";") : t \in RenderTables}]

\* the numbers of the tokens of the aggregate grammar
RenderSdBodies ==
    { <<"1">>, <<"9">>, <<"1", "0">>, <<"1", "9">>, <<"2", "0">>, <<"2", "5">> }

\* one instance, initialised and not yet sampled
RenderInit ==
    /\ Quiet
    /\ enabled \in {{"e1"}, {"e2"}, SdInsts}
    /\ xpriv = [i \in enabled \cap ExecInsts |->
                   exec_init(ExecConfig(i)).private]
    /\ spriv = [i \in enabled \cap SdInsts |-> sd_init(SdConfig(i)).private]
    /\ event = [type |-> "init"]
    /\ hist = [i \in enabled |->
                 [starts |-> {}, done |-> 0, ever_ok |-> FALSE,
                  last_ok |-> TRUE]]

\* the first sample call of the instance and the end of its fetch
RenderNext ==
    \/ \E i \in ExecInsts, format \in {Wrap(body) : body \in RenderBodies} :
          ncalls = 0 /\ SampleExec(i, 1, format)
    \/ \E f \in xfetch, outcome \in RenderOutcomes : ExecCallback(f, outcome)
    \/ \E i \in SdInsts, format \in {Wrap(body) : body \in RenderSdBodies} :
          ncalls = 0 /\ SampleSd(i, 1, format)
    \/ \E f \in sfetch, k \in 1..2, outcome \in SdOutcomes,
          date_now \in DateNows :
          ServiceCallback(f, k, outcome, date_now)

RenderSpec == RenderInit /\ [][RenderNext]_vars

\* ------------------------------------------------------------------------
\* A sample of a systemd instance whose cache an earlier fetch has filled
\* ------------------------------------------------------------------------
\* the most services an instance monitors
MaxServices == 5

\* the k-th configured service
CacheService(k) == <<"s1panel", "-", "svc">> \o NumStr(k)

\* what systemctl show writes for a service in the given state
StatusText(state) ==
    <<"ActiveState", "=">> \o state
       \o <<"\n", "ActiveEnterTimestamp", "=", "Tue", " ", "2025-12-02", " ",
            "00:01:40", " ", "CET",
            "\n", "InactiveEnterTimestamp", "=", "Tue", " ", "2025-12-02",
            " ", "00:03:10", " ", "CET", "\n">>

\* the numbers of the tokens sampled
CacheBodies ==
    { <<"1">>, <<"8">>, <<"1", "0">>, <<"1", "1">>, <<"1", "2">>,
      <<"1", "3">>, <<"1", "4">>, <<"1", "6">>, <<"3", "4">> }

\* the instance s1 after its first sample, made at time 1 with an empty
\* format, has fetched and cached the status of each of its services
CacheInit ==
    \E n \in 0..MaxServices :
       \E states \in [1..n -> {<<"active">>, <<"failed">>, <<"inactive">>}] :
          LET services == [k \in 1..n |-> CacheService(k)]
              p == sd_init([name |-> <<"m">>, services |-> services,
                            strip_prefix |-> <<"s1panel">>]).private
              statuses == [k \in 1..n |->
                             get_service_status(services[k], p.strip_prefix,
                                                StatusText(states[k]), 190000)]
              q == sd_update(sample_begin(p, 1, 1),
                             get_all_services_status(services, statuses))
          IN  /\ enabled = {"s1"}
              /\ now = 1
              /\ xpriv = [i \in {} |-> 0]
              /\ fault = FALSE
              /\ xfetch = {}
              /\ spriv = [i \in {"s1"} |-> q]
              /\ sfetch = {}
              /\ micro = <<>>
              /\ ncalls = 1
              /\ last = [id |-> 1, inst |-> "s1", kind |-> "fetch",
                          format |-> <<>>] @@ sd_result(q, <<>>)
              /\ fulfilled = {1}
              /\ event = [type |-> "done", id |-> 1, inst |-> "s1",
                          ok |-> TRUE, logged |-> FALSE, k |-> n,
                          format |-> <<>>]
              /\ hist = [i \in {"s1"} |->
                           [starts |-> {1}, done |-> 1, ever_ok |-> TRUE,
                            last_ok |-> TRUE]]
              /\ lastdone = "none"

\* the second sample call, which the rate gate keeps from fetching, and its
\* reaction, which renders the cache
CacheNext ==
    \/ \E format \in {Wrap(body) : body \in CacheBodies} : ncalls = 1 /\ SampleSd("s1", 1, format)
    \/ SampleThen

CacheSpec == CacheInit /\ [][CacheNext]_vars

\* ------------------------------------------------------------------------
\* The status functions applied to what systemctl can report
\* ------------------------------------------------------------------------
\* the longest service name and the longest property text
MaxNameLen == 4

MaxShowLen == 5

\* the ActiveState systemctl reports; <<>> when it reports none
StatusStates ==
    { <<>>, <<"active">>, <<"failed">>, <<"inactive">>, <<"activating">>,
      <<"deactivating">>, <<"reloading">>, <<"maintenance">>,
      <<"constructor">>, <<"__proto__">> }

\* a timestamp as systemctl show writes it
TimeText(clock) == <<"Tue", " ", "2025-12-02", " ", clock, " ", "CET">>

StateChangeTexts ==
    { <<>>, <<"soon">>, TimeText("00:02:30"),
      <<"2025-12-02", " ", "00:01:40">> }

\* what systemctl show writes for the report r: a line per property, the
\* line of an empty property left out when r.omit_empty
ShowText(r) ==
    LET line(key, value) ==
          IF value = <<>> /\ r.omit_empty THEN <<>>
          ELSE <<key, "=">> \o value \o <<"\n">>
    IN  line("ActiveState", r.state)
          \o line("ActiveEnterTimestamp", r.active_enter)
          \o line("InactiveEnterTimestamp", r.inactive_enter)
          \o line("StateChangeTimestamp", r.state_change)

\* Date.now() when an elapsed time is formatted
ElapsedNow == 1000000000

\* the elapsed time of the input e, in milliseconds
ElapsedMs(e) ==
    (((e.days * 24 + e.hours) * 60 + e.minutes) * 60 + e.seconds) * 1000
        + e.millis

\* a status function is about to be applied to an input
StatusInput ==
    /\ Quiet
    /\ enabled = {}
    /\ xpriv = [i \in {} |-> 0]
    /\ spriv = [i \in {} |-> 0]
    /\ hist = [i \in {} |-> 0]
    /\ event \in
         [type : {"input"}, fn : {"get_service_status"},
          state : StatusStates, active_enter : {<<>>, TimeText("00:01:40")},
          inactive_enter : {<<>>, <<"n/a">>, TimeText("00:03:10")},
          state_change : StateChangeTexts, omit_empty : BOOLEAN,
          date_now : {120000, 190000}]
         \cup
         [type : {"input"}, fn : {"format_elapsed_time"},
          days : {0, 1, 3}, hours : {0, 2, 23}, minutes : {0, 1, 59},
          seconds : {0, 30, 59}, millis : {0, 999}, future : BOOLEAN]
         \cup
         [type : {"input"}, fn : {"display_name"},
          service : SeqsUpTo({"p", "-", "w"}, MaxNameLen) \ {<<>>},
          strip_prefix : SeqsUpTo({"p", "-"}, 2)]
         \cup
         [type : {"input"}, fn : {"parse_systemctl_show"},
          output : SeqsUpTo({"k", "=", "v", "\n", "__proto__"}, MaxShowLen)]

\* the exec callback of get_service_status for the service s1panel-web
GetServiceStatus ==
    /\ event.type = "input"
    /\ event.fn = "get_service_status"
    /\ event' = [event EXCEPT !.type = "output"]
                  @@ [stdout |-> ShowText(event),
                      result |->
                        get_service_status(<<"s1panel", "-", "web">>,
                                           <<"s1panel">>, ShowText(event),
                                           event.date_now)]
    /\ UNCHANGED <<enabled, now, xpriv, fault, xfetch, spriv, sfetch, micro,
                   ncalls, last, fulfilled, hist, lastdone>>

FormatElapsedTime ==
    LET timestamp_ms == IF event.future THEN ElapsedNow + ElapsedMs(event)
                        ELSE ElapsedNow - ElapsedMs(event)
    IN  /\ event.type = "input"
        /\ event.fn = "format_elapsed_time"
        /\ event' = [event EXCEPT !.type = "output"]
                      @@ [timestamp_ms |-> timestamp_ms,
                          date_now |-> ElapsedNow,
                          result |->
                            format_elapsed_time(timestamp_ms, ElapsedNow)]
        /\ UNCHANGED <<enabled, now, xpriv, fault, xfetch, spriv, sfetch,
                       micro, ncalls, last, fulfilled, hist, lastdone>>

DisplayName ==
    /\ event.type = "input"
    /\ event.fn = "display_name"
    /\ event' = [event EXCEPT !.type = "output"]
                  @@ [result |->
                        display_name(event.service, event.strip_prefix)]
    /\ UNCHANGED <<enabled, now, xpriv, fault, xfetch, spriv, sfetch, micro,
                   ncalls, last, fulfilled, hist, lastdone>>

ParseSystemctlShow ==
    /\ event.type = "input"
    /\ event.fn = "parse_systemctl_show"
    /\ event' = [event EXCEPT !.type = "output"]
                  @@ [result |-> parse_systemctl_show(event.output)]
    /\ UNCHANGED <<enabled, now, xpriv, fault, xfetch, spriv, sfetch, micro,
                   ncalls, last, fulfilled, hist, lastdone>>

StatusNext ==
    GetServiceStatus \/ FormatElapsedTime \/ DisplayName \/ ParseSystemctlShow

StatusSpec == StatusInput /\ [][StatusNext]_vars

\* ------------------------------------------------------------------------
\* The LED strip controller script
\* ------------------------------------------------------------------------
\* the most words on the command line
MaxArgs == 3

\* the words a command line is made of
LedWords == {"theme", "intensity", "speed", "off", "5", "11", "--host", "-l"}

\* [[ "$word" =~ ^[0-9]+$ ]] and the number the word then is: -1 for a
\* word that is not a number
LedNumber(word) ==
    CASE word = "5" -> 5
      [] word = "11" -> 11
      [] OTHER -> -1

\* ${THEME_IDS[$input]:-}: 0 when the name is none of the themes
THEME_IDS(input) ==
    CASE input = "rainbow" -> 1
      [] input = "breathing" -> 2
      [] input = "color-cycle" -> 3
      [] input = "off" -> 4
      [] input = "auto" -> 5
      [] OTHER -> 0

\* validate_theme: whether it returns 0, and what it writes then
validate_theme(input) ==
    IF LedNumber(input) >= 0
    THEN [ok |-> LedNumber(input) >= 1 /\ LedNumber(input) <= 5,
          out |-> LedNumber(input)]
    ELSE [ok |-> THEME_IDS(input) # 0, out |-> THEME_IDS(input)]

\* validate_range
validate_range(value, min, max) ==
    [ok |-> /\ LedNumber(value) >= 0
            /\ ~(LedNumber(value) < min \/ LedNumber(value) > max),
     out |-> LedNumber(value)]

\* the script starts: the defaults, ACTION="get", and the command line
LedInit ==
    /\ Quiet
    /\ enabled = {}
    /\ xpriv = [i \in {} |-> 0]
    /\ spriv = [i \in {} |-> 0]
    /\ hist = [i \in {} |-> 0]
    /\ \E argv \in SeqsUpTo(LedWords, MaxArgs) :
          event = [type |-> "led", pc |-> "args", argv |-> argv,
                   args |-> argv, THEME |-> 4, INTENSITY |-> 3, SPEED |-> 3,
                   HOST |-> "localhost", Action |-> "get", sent |-> <<>>,
                   status |-> "running"]

\* one round of the while loop over the command line: the case of $1
LedArg ==
    /\ event.type = "led"
    /\ event.pc = "args"
    /\ event.args # <<>>
    /\ LET word == event.args[1]
           \* ${2:-} is empty, and $2 is unbound under set -u
           none == Len(event.args) < 2
           value == event.args[2]
           rest == SubSeq(event.args, 3, Len(event.args))
           \* the script ends with the exit status 0 or another one
           LedExit(e, status) == [e EXCEPT !.pc = "exit", !.status = status]
       IN  event' =
             CASE word = "theme" ->
                    IF none \/ ~validate_theme(value).ok
                    THEN LedExit(event, "nonzero")
                    ELSE [event EXCEPT !.THEME = validate_theme(value).out,
                                       !.Action = "set", !.args = rest]
               [] word = "intensity" ->
                    IF none \/ ~validate_range(value, 1, 10).ok
                    THEN LedExit(event, "nonzero")
                    ELSE [event EXCEPT
                            !.INTENSITY = validate_range(value, 1, 10).out,
                            !.Action = "set", !.args = rest]
               [] word = "speed" ->
                    IF none \/ ~validate_range(value, 1, 10).ok
                    THEN LedExit(event, "nonzero")
                    ELSE [event EXCEPT
                            !.SPEED = validate_range(value, 1, 10).out,
                            !.Action = "set", !.args = rest]
               [] word = "--host" ->
                    IF none THEN LedExit(event, "nonzero")
                    ELSE [event EXCEPT !.HOST = value, !.args = rest]
               [] word = "-l" -> LedExit(event, "0")
               [] OTHER -> LedExit(event, "nonzero")
    /\ UNCHANGED <<enabled, now, xpriv, fault, xfetch, spriv, sfetch, micro,
                   ncalls, last, fulfilled, hist, lastdone>>

\* the last line when ACTION is "get": get_status asks for the status; the
\* list `[[ ... ]] && get_status || set_led_strip` goes on to
\* set_led_strip when get_status returns another status than 0
get_status(outcome) ==
    /\ event.type = "led"
    /\ event.pc = "args"
    /\ event.args = <<>>
    /\ event.Action = "get"
    /\ event' = [event EXCEPT
                   !.sent = Append(@, [method |-> "GET",
                                       host |-> event.HOST]),
                   !.pc = IF outcome = "ok" THEN "exit" ELSE "set",
                   !.status = IF outcome = "ok" THEN "0" ELSE "running"]
    /\ UNCHANGED <<enabled, now, xpriv, fault, xfetch, spriv, sfetch, micro,
                   ncalls, last, fulfilled, hist, lastdone>>

\* set_led_strip posts the configuration, when ACTION is "set" and after a
\* get_status that did not return 0
set_led_strip(outcome) ==
    /\ event.type = "led"
    /\ \/ event.pc = "args" /\ event.args = <<>> /\ event.Action = "set"
       \/ event.pc = "set"
    /\ event' = [event EXCEPT
                   !.sent = Append(@, [method |-> "POST",
                                       host |-> event.HOST,
                                       theme |-> event.THEME,
                                       intesity |-> event.INTENSITY,
                                       speed |-> event.SPEED]),
                   !.pc = "exit",
                   !.status = IF outcome = "ok" THEN "0" ELSE "nonzero"]
    /\ UNCHANGED <<enabled, now, xpriv, fault, xfetch, spriv, sfetch, micro,
                   ncalls, last, fulfilled, hist, lastdone>>

LedNext ==
    \/ LedArg
    \* a request ends with curl and jq succeeding, with curl failing, or
    \* with curl succeeding and jq failing
    \/ \E outcome \in {"ok", "curl_failed", "jq_failed"} : get_status(outcome)
    \/ \E outcome \in {"ok", "curl_failed", "jq_failed"} :
          set_led_strip(outcome)

LedSpec == LedInit /\ [][LedNext]_vars

\* ------------------------------------------------------------------------
\* The load average history script
\* ------------------------------------------------------------------------
\* A text without a line end is the sequence of its fields between commas:
\* "0,0.07" is <<"0", "0.07">>. HISTORY_LOAD5 is kept in this form, so that
\* joining with "," is concatenation and IFS=',' read -ra gives the fields.
MAX_SAMPLES == 16

UPDATE_INTERVAL == 300

\* the latest second of the clock
MaxClock == 900

\* printf "%.2f" "$LOAD5", the text it writes: the number is read up to the
\* first character that is not part of a number in the locale, which in
\* a locale with a decimal comma is the point of /proc/loadavg, and written
\* with two decimals and the locale's decimal point
printf_2f(point, load) ==
    IF point = "." THEN <<load.int \o "." \o load.frac>>
    ELSE <<load.int, "00">>

\* ZEROS: MAX_SAMPLES zeros joined with ","
ZEROS == [i \in 1..MAX_SAMPLES |-> "0"]

\* the instances that can be between their failed flock and their exit at
\* one time
MaxReaders == 2

\* nothing is stored, no instance runs, the clock is at 0. DB_FILE is the
\* text of the store (no fields when the file is empty), mtime the second
\* it was last written, pc where the instance that holds the lock is and
\* HISTORY_LOAD5 its variable; readers are the instances that did not get
\* the lock, each with its place and its HISTORY_LOAD5; out is the output
\* written last
LoadInit ==
    /\ Quiet
    /\ enabled = {}
    /\ xpriv = [i \in {} |-> 0]
    /\ spriv = [i \in {} |-> 0]
    /\ hist = [i \in {} |-> 0]
    \* the decimal point of the locale the script runs under
    /\ \E point \in {".", ","} :
          event = [type |-> "load", point |-> point, clock |-> 0,
                   exists |-> FALSE, DB_FILE |-> <<>>, mtime |-> 0,
                   pc |-> "idle", HISTORY_LOAD5 |-> <<>>, updates |-> 0,
                   readers |-> [b \in 1..MaxReaders |->
                                  [pc |-> "none", HISTORY_LOAD5 |-> <<>>]],
                   out |-> [by |-> "none", printed |-> FALSE,
                            history |-> <<>>]]

\* time passes
LoadTick(d) ==
    /\ event.type = "load"
    /\ event.clock + d <= MaxClock
    /\ event' = [event EXCEPT !.clock = @ + d]
    /\ UNCHANGED <<enabled, now, xpriv, fault, xfetch, spriv, sfetch, micro,
                   ncalls, last, fulfilled, hist, lastdone>>

\* an instance starts and takes the lock (flock -n 200 succeeds)
LoadLock ==
    /\ event.type = "load"
    /\ event.pc = "idle"
    /\ event' = [event EXCEPT !.pc = "init"]
    /\ UNCHANGED <<enabled, now, xpriv, fault, xfetch, spriv, sfetch, micro,
                   ncalls, last, fulfilled, hist, lastdone>>

\* an instance starts while another holds the lock: its flock -n 200 fails
LoadFlockFails(b) ==
    /\ event.type = "load"
    /\ event.pc # "idle"
    /\ event.readers[b].pc = "none"
    /\ event' = [event EXCEPT !.readers[b].pc = "failed"]
    /\ UNCHANGED <<enabled, now, xpriv, fault, xfetch, spriv, sfetch, micro,
                   ncalls, last, fulfilled, hist, lastdone>>

\* an instance without the lock tests for the store ([[ -f "$DB_FILE" ]]):
\* without a store it exits and has written nothing
LoadLockedTest(b) ==
    /\ event.type = "load"
    /\ event.readers[b].pc = "failed"
    /\ event' =
         IF event.exists
         THEN [event EXCEPT !.readers[b].pc = "source"]
         ELSE [event EXCEPT
                 !.readers[b].pc = "none",
                 !.out = [by |-> "locked", printed |-> FALSE,
                          history |-> <<>>]]
    /\ UNCHANGED <<enabled, now, xpriv, fault, xfetch, spriv, sfetch, micro,
                   ncalls, last, fulfilled, hist, lastdone>>

\* an instance without the lock sources the store as it is at that moment
\* (no history when the store is empty)
LoadLockedSource(b) ==
    /\ event.type = "load"
    /\ event.readers[b].pc = "source"
    /\ event' = [event EXCEPT
                   !.readers[b] = [pc |-> "print",
                                   HISTORY_LOAD5 |-> event.DB_FILE]]
    /\ UNCHANGED <<enabled, now, xpriv, fault, xfetch, spriv, sfetch, micro,
                   ncalls, last, fulfilled, hist, lastdone>>

\* an instance without the lock writes the history it read and exits
LoadLockedPrint(b) ==
    /\ event.type = "load"
    /\ event.readers[b].pc = "print"
    /\ event' = [event EXCEPT
                   !.readers[b] = [pc |-> "none", HISTORY_LOAD5 |-> <<>>],
                   !.out = [by |-> "locked", printed |-> TRUE,
                            history |-> event.readers[b].HISTORY_LOAD5]]
    /\ UNCHANGED <<enabled, now, xpriv, fault, xfetch, spriv, sfetch, micro,
                   ncalls, last, fulfilled, hist, lastdone>>

\* cat > "$DB_FILE", its first half: the shell of the lock holder opens the
\* store for writing, which creates it or empties it
LoadOpen ==
    /\ event.type = "load"
    /\ \/ event.pc = "init" /\ ~event.exists
       \/ event.pc = "update"
    /\ event' = [event EXCEPT
                   !.exists = TRUE,
                   !.DB_FILE = <<>>,
                   !.mtime = event.clock,
                   !.pc = IF event.pc = "init" THEN "zeros" ELSE "write"]
    /\ UNCHANGED <<enabled, now, xpriv, fault, xfetch, spriv, sfetch, micro,
                   ncalls, last, fulfilled, hist, lastdone>>

\* cat > "$DB_FILE", its second half: cat writes the text, MAX_SAMPLES zeros
\* for a new store and the shifted history in an update
LoadCat ==
    /\ event.type = "load"
    /\ event.pc \in {"zeros", "write"}
    /\ event' =
         IF event.pc = "zeros"
         THEN [event EXCEPT !.DB_FILE = ZEROS, !.mtime = event.clock,
                            !.pc = "source"]
         ELSE [event EXCEPT
                 !.DB_FILE = event.HISTORY_LOAD5,
                 !.mtime = event.clock,
                 !.updates = @ + 1,
                 !.pc = "print"]
    /\ UNCHANGED <<enabled, now, xpriv, fault, xfetch, spriv, sfetch, micro,
                   ncalls, last, fulfilled, hist, lastdone>>

\* the lock holder sources the store, reads the load and compares the age
\* of the store with UPDATE_INTERVAL: it shifts the history when an update
\* is due
LoadSource(load) ==
    /\ event.type = "load"
    /\ \/ event.pc = "init" /\ event.exists
       \/ event.pc = "source"
    /\ LET CURRENT_LOAD5 == printf_2f(event.point, load)
           TIME_DIFF == event.clock - event.mtime
           HISTORY_ARRAY == event.DB_FILE
       IN  event' =
             IF TIME_DIFF >= UPDATE_INTERVAL
             THEN [event EXCEPT
                     \* all fields but the first, then the current load
                     !.HISTORY_LOAD5 =
                         SubSeq(HISTORY_ARRAY, 2, Len(HISTORY_ARRAY))
                            \o CURRENT_LOAD5,
                     !.pc = "update"]
             ELSE [event EXCEPT
                     !.HISTORY_LOAD5 = event.DB_FILE,
                     !.pc = "print"]
    /\ UNCHANGED <<enabled, now, xpriv, fault, xfetch, spriv, sfetch, micro,
                   ncalls, last, fulfilled, hist, lastdone>>

\* the lock holder writes its output: the loads and its HISTORY_LOAD5
LoadPrint ==
    /\ event.type = "load"
    /\ event.pc = "print"
    /\ event' = [event EXCEPT
                   !.pc = "exit",
                   !.out = [by |-> "run", printed |-> TRUE,
                            history |-> event.HISTORY_LOAD5]]
    /\ UNCHANGED <<enabled, now, xpriv, fault, xfetch, spriv, sfetch, micro,
                   ncalls, last, fulfilled, hist, lastdone>>

\* the lock holder exits, which closes descriptor 200 and frees the lock
LoadExit ==
    /\ event.type = "load"
    /\ event.pc = "exit"
    /\ event' = [event EXCEPT !.pc = "idle"]
    /\ UNCHANGED <<enabled, now, xpriv, fault, xfetch, spriv, sfetch, micro,
                   ncalls, last, fulfilled, hist, lastdone>>

LoadNext ==
    \* 149 or 150 seconds pass
    \/ \E d \in {149, 150} : LoadTick(d)
    \/ LoadLock
    \/ \E b \in 1..MaxReaders : LoadFlockFails(b)
    \/ \E b \in 1..MaxReaders : LoadLockedTest(b)
    \/ \E b \in 1..MaxReaders : LoadLockedSource(b)
    \/ \E b \in 1..MaxReaders : LoadLockedPrint(b)
    \/ LoadOpen
    \/ LoadCat
    \* the 5-minute load average /proc/loadavg shows: 0.07 or 1.50
    \/ \E load \in {[int |-> "0", frac |-> "07"],
                     [int |-> "1", frac |-> "50"]} : LoadSource(load)
    \/ LoadPrint
    \/ LoadExit

LoadSpec == LoadInit /\ [][LoadNext]_vars

\* ------------------------------------------------------------------------
\* The threshold doughnut chart: the colour of the used part
\* ------------------------------------------------------------------------
\* the most thresholds a configuration lists
MaxThresholds == 3

\* Default thresholds: green -> yellow -> orange -> red
DEFAULT_THRESHOLDS ==
    <<[value |-> 0, color |-> "#00e600"],
      [value |-> 50, color |-> "#ffcc00"],
      [value |-> 75, color |-> "#ff9500"],
      [value |-> 90, color |-> "#ff3333"]>>

\* the thresholds configurations are made of; "" is a colour left out
ThresholdEntries ==
    ([value : {0, 50, 90}, color : {"#aa", "#bb"}])
        \cup {[value |-> 50, color |-> ""]}

\* config.thresholds: left out, not an array, or an array
ThresholdConfigs ==
    {[given |-> g, list |-> <<>>] : g \in {"absent", "object"}}
        \cup {[given |-> "array", list |-> l] :
                 l \in SeqsUpTo(ThresholdEntries, MaxThresholds)}

\* [...thresholds].sort((a, b) => b.value - a.value): Array.prototype.sort
\* is stable, so entries of one value keep their order
RECURSIVE sort_descending(_)
sort_descending(list) ==
    IF list = <<>> THEN <<>>
    ELSE LET rest == sort_descending(Tail(list))
             head == Head(list)
             \* the entries of rest that stay before head: a greater value
             before == {k \in 1..Len(rest) : rest[k].value > head.value}
             n == Cardinality(before)
         IN  SubSeq(rest, 1, n) \o <<head>> \o SubSeq(rest, n + 1, Len(rest))

\* get_threshold_color that walks the thresholds in the order listed
get_threshold_color_unsorted(value, thresholds, defaultColor) ==
    LET list == IF thresholds.given # "array" \/ Len(thresholds.list) = 0
                THEN DEFAULT_THRESHOLDS ELSE thresholds.list
        sortedThresholds == list
        met == {k \in 1..Len(sortedThresholds) :
                   ~value.nan /\ value.n >= sortedThresholds[k].value}
    IN  IF met # {}
        THEN sortedThresholds[CHOOSE k \in met : \A j \in met : k <= j].color
        ELSE IF defaultColor # "" THEN defaultColor
        ELSE IF list[1].color # "" THEN list[1].color
        ELSE "#48BB78"

get_threshold_color(value, thresholds, defaultColor) ==
    LET list == IF thresholds.given # "array" \/ Len(thresholds.list) = 0
                THEN DEFAULT_THRESHOLDS ELSE thresholds.list
        sortedThresholds == sort_descending(list)
        met == {k \in 1..Len(sortedThresholds) :
                   ~value.nan /\ value.n >= sortedThresholds[k].value}
    IN  IF met # {}
        THEN sortedThresholds[CHOOSE k \in met : \A j \in met : k <= j].color
        ELSE IF defaultColor # "" THEN defaultColor
        ELSE IF list[1].color # "" THEN list[1].color
        ELSE "#48BB78"

\* a chart is about to be drawn: its value and its configuration
ColorInit ==
    /\ Quiet
    /\ enabled = {}
    /\ xpriv = [i \in {} |-> 0]
    /\ spriv = [i \in {} |-> 0]
    /\ hist = [i \in {} |-> 0]
    \* Number(value) is a number, or NaN for a value that is none;
    \* config.used is a colour, or "" when left out
    /\ \E value \in {[nan |-> FALSE, n |-> n] :
                         n \in {-5, 0, 49, 50, 75, 89, 90, 100}}
                         \cup {[nan |-> TRUE, n |-> 0]},
          thresholds \in ThresholdConfigs,
          used \in {"", "#dd"} :
          event = [type |-> "color", value |-> value,
                   thresholds |-> thresholds, used |-> used,
                   done |-> FALSE, color |-> ""]

\* draw: _used_color = get_threshold_color(value, config.thresholds,
\* config.used)
DrawColor ==
    /\ event.type = "color"
    /\ ~event.done
    /\ event' = [event EXCEPT
                   !.done = TRUE,
                   !.color = get_threshold_color(event.value,
                                 event.thresholds, event.used)]
    /\ UNCHANGED <<enabled, now, xpriv, fault, xfetch, spriv, sfetch, micro,
                   ncalls, last, fulfilled, hist, lastdone>>

ColorSpec == ColorInit /\ [][DrawColor]_vars

\* ------------------------------------------------------------------------
\* Properties
\* ------------------------------------------------------------------------
\* what the exec sample renders for the single token {body}
Render(p, body) == exec_replace(p, <<"{">> \o body \o <<"}">>)

\* the bodies of the data tokens: rows, cells, lines and the introspection
\* values other than success and exit_code
DataBodies ==
    { <<"0">>, <<"1">>, <<"2">>, <<"0", ".", "a">>, <<"0", ".", "b">>,
      <<"1", ".", "a">>, <<"1", ".", "b">>,
      <<"r", "o", "w", "s">>, <<"c", "o", "l", "u", "m", "n", "s">>,
      <<"h", "e", "a", "d", "e", "r", "s">>, <<"l", "i", "n", "e", "s">>,
      <<"a", "l", "l">>, <<"j", "s", "o", "n">> }

\* the parsed state an exec instance caches
ExecData(p) ==
    <<p.headers, p.rows, p.row_count, p.raw_lines, p.line_count>>

\* the fetches in flight, of both sensors
InFlight(i) == {f \in xfetch \cup sfetch : f.inst = i}

\* C1: when a fetch of an exec instance fails after an earlier fetch of it
\* succeeded, the cached headers, rows and row count, lines and line count
\* stay as they were, every data token renders as before, and {success}
\* renders "false".
C1_FailureRetention ==
    [][\A i \in DOMAIN xpriv :
          (/\ event'.type = "done"
           /\ event'.inst = i
           /\ ~event'.ok
           /\ hist[i].ever_ok)
          => /\ ExecData(xpriv'[i]) = ExecData(xpriv[i])
             /\ \A body \in DataBodies :
                   Render(xpriv'[i], body) = Render(xpriv[i], body)
             /\ Render(xpriv'[i], <<"s", "u", "c", "c", "e", "s", "s">>)
                   = <<"f", "a", "l", "s", "e">>]_vars

\* C1 witness: a fetch of the tabular instance has just failed while the
\* cache holds the rows of an earlier success
C1_Witness ==
    /\ enabled = ExecInsts
    /\ event.type = "done"
    /\ event.inst = "e1"
    /\ ~event.ok
    /\ hist["e1"].ever_ok
    /\ xpriv["e1"].row_count > 0
    /\ ~xpriv["e1"].last_success

\* C2 (as claimed): the cached status records change only in a step that
\* completes a fetch all of whose status queries succeeded.
C2_CacheReplacedOnlyBySuccess ==
    [][\A i \in DOMAIN spriv :
          spriv'[i].status_cache # spriv[i].status_cache
          => (event'.type = "done" /\ event'.inst = i /\ event'.ok)]_vars

\* C3 (as claimed): at most one fetch of an instance is in flight.
C3_OneFetchInFlight ==
    \A i \in enabled : Cardinality(InFlight(i)) <= 1

\* C4: a sample call that starts a fetch comes more than its rate after
\* every earlier start of a fetch of the same instance; so of two calls at
\* most rate_ms apart at most one starts a fetch, whether the first fetch
\* has succeeded, failed or is still in flight.
C4_RateGate ==
    [][(event'.type = "call" /\ event'.dirty)
          => \A t \in hist[event'.inst].starts : now - t > event'.rate]_vars

\* C4 witness: a call exactly rate_ms after the start of a fetch that is
\* still in flight has started no fetch
C4_Witness ==
    /\ event.type = "call"
    /\ ~event.dirty
    /\ \E t \in hist[event.inst].starts : now > t /\ now - t = event.rate
    /\ Cardinality(InFlight(event.inst)) = 1

\* C5: a sample call adds exactly one fetch when last_sampled is unset or
\* more than rate milliseconds have passed since, and then sets last_sampled
\* to the current time before the fetch has completed; otherwise it adds
\* none.
C5_DecisionRule ==
    [][event'.type = "call"
          => LET i == event'.inst
                 p == IF i \in ExecInsts THEN xpriv[i] ELSE spriv[i]
                 q == IF i \in ExecInsts THEN xpriv'[i] ELSE spriv'[i]
                 due == p.last_sampled = 0
                           \/ now - p.last_sampled > event'.rate
                 after == {f \in xfetch' \cup sfetch' : f.inst = i}
             IN  IF due
                 THEN /\ Cardinality(after) = Cardinality(InFlight(i)) + 1
                      /\ \E f \in after : f.id = event'.id
                      /\ q.last_sampled = now
                 ELSE /\ after = InFlight(i)
                      /\ q.last_sampled = p.last_sampled]_vars

\* C5 witness: a call made exactly rate milliseconds after last_sampled
\* started no fetch, and a later call has started one
C5_Witness ==
    /\ event.type = "call"
    /\ event.dirty
    /\ \E i \in enabled :
          /\ i # event.inst
          /\ Cardinality(hist[i].starts) = 1
          /\ \E t \in hist[i].starts : now - t = 2
    /\ Cardinality(hist[event.inst].starts) = 2

\* C6: every sample call is eventually fulfilled with a result, whatever
\* becomes of its fetch: again and again, every call made so far has been
\* fulfilled (a fulfilled call stays fulfilled, and no step rejects one).
C6_AlwaysFulfils == []<>(fulfilled = 1..ncalls)

\* C7 (as claimed): an exec instance's failure is logged exactly when it
\* would be logged had the instance run alone, that is when none of its own
\* fetches has completed yet or its own latest fetch succeeded.
C7_LogAsIfAlone ==
    [][\A i \in DOMAIN xpriv :
          (event'.type = "done" /\ event'.inst = i /\ ~event'.ok)
          => (event'.logged <=> hist[i].last_ok)]_vars

\* C8: in the order in which the commands of the module end, a failure is
\* logged exactly when it is the first command to end or the command that
\* ended before it succeeded.
C8_EdgeTriggeredLog ==
    [][(event'.type = "done" /\ event'.inst \in ExecInsts /\ ~event'.ok)
          => (event'.logged <=> lastdone # "failed")]_vars

\* C8 witness: a failure that follows a success, which followed a failure,
\* has been logged
C8_Witness ==
    /\ event.type = "done"
    /\ event.inst \in ExecInsts
    /\ ~event.ok
    /\ event.logged
    /\ \E i \in enabled : hist[i].ever_ok
    /\ \E i \in enabled : i # event.inst /\ ~hist[i].last_ok

\* C9: the steps of a sample call that starts no fetch (the call and its
\* reaction) leave the private state of every instance and the fault flag
\* as they were.
C9_NoFetchNoChange ==
    [][((event'.type = "call" /\ ~event'.dirty) \/ event'.type = "then")
          => (xpriv' = xpriv /\ spriv' = spriv /\ fault' = fault)]_vars

\* C9 witness: a call that started no fetch has been fulfilled from a
\* cache that a completed fetch filled
C9_Witness ==
    /\ event.type = "then"
    /\ hist[event.inst].done > 0
    /\ last.id = event.id
    /\ last.max > 0

\* C10: an exec instance none of whose fetches has succeeded renders
\* {success} as "false", the counts of its grammar ({rows} and {columns},
\* or {lines}) as 0, every row, cell and line token of its grammar as the
\* empty string, and {exit_code} as -1 as long as none of its fetches has
\* completed.
C10_DefaultsUntilSuccess ==
    \A i \in DOMAIN xpriv :
       ~hist[i].ever_ok =>
          LET p == xpriv[i] IN
          /\ Render(p, <<"s", "u", "c", "c", "e", "s", "s">>)
                = <<"f", "a", "l", "s", "e">>
          /\ p.csv => /\ Render(p, <<"r", "o", "w", "s">>) = <<"0">>
                      /\ Render(p, <<"c", "o", "l", "u", "m", "n", "s">>)
                            = <<"0">>
          /\ ~p.csv => Render(p, <<"l", "i", "n", "e", "s">>) = <<"0">>
          /\ \A body \in { <<"0">>, <<"1">>, <<"2">> } : Render(p, body) = <<>>
          /\ p.csv => \A body \in { <<"0", ".", "a">>, <<"0", ".", "b">>,
                                    <<"1", ".", "a">> } :
                         Render(p, body) = <<>>
          /\ hist[i].done = 0
                => Render(p, <<"e", "x", "i", "t", "_", "c", "o", "d", "e">>)
                      = <<"-", "1">>

\* C10 witness: two fetches of the tabular instance have failed and none
\* has succeeded
C10_Witness ==
    /\ enabled = ExecInsts
    /\ hist["e1"].done = 2
    /\ ~hist["e1"].ever_ok
\* C11: the exec init returns null and leaves the configuration without
\* private state when the name or the command is missing or empty;
\* otherwise it returns "exec_" followed by the name and installs a state
\* with no headers, rows or lines, exit_code -1, last_success false and
\* last_sampled 0.
C11_ExecInit ==
    (event.type = "init" /\ event.sensor = "exec") =>
        LET c == event.config
            r == event.result
            missing(key) == key \notin DOMAIN c \/ c[key] = <<>>
        IN  IF missing("name") \/ missing("command")
            THEN ~r.ok /\ ~r.threw /\ enabled = {} /\ DOMAIN xpriv = {}
            ELSE /\ r.ok
                 /\ r.identity = <<"e", "x", "e", "c", "_">> \o c["name"]
                 /\ DOMAIN xpriv = {"e1"}
                 /\ ExecData(xpriv["e1"]) = <<<<>>, <<>>, 0, <<>>, 0>>
                 /\ xpriv["e1"].exit_code = JsNum(-1)
                 /\ xpriv["e1"].last_success = FALSE
                 /\ xpriv["e1"].last_sampled = 0

\* init was refused for a configuration that has a name but an empty command
C11_Witness ==
    /\ event.type = "init"
    /\ event.sensor = "exec"
    /\ "name" \in DOMAIN event.config
    /\ event.config["name"] = <<"a">>
    /\ "command" \in DOMAIN event.config
    /\ event.config["command"] = <<>>
    /\ ~event.result.ok
    /\ DOMAIN xpriv = {}

\* C12: init never throws, whatever the configuration, a null or absent one
\* included: it returns an identity or null.
C12_InitNeverThrows ==
    event.type = "init" => ~event.result.threw


\* C13: the status cache of a systemd instance is replaced only by the step
\* in which the last status query of a fan-out ends; whenever it is not
\* empty it holds one record per configured service, record k being that of
\* service k, whatever order the queries ended in; and what is rendered is
\* rendered from such a cache.
C13_Join ==
    [][\A i \in enabled \cap SdInsts :
          LET services == spriv[i].services
              whole(cache) ==
                  /\ Len(cache) = Len(services)
                  /\ \A m \in 1..Len(services) :
                        /\ cache[m].service = services[m]
                        /\ cache[m].display_name
                             = display_name(services[m], spriv[i].strip_prefix)
          IN  /\ spriv'[i].status_cache # spriv[i].status_cache
                   => /\ event'.type = "done"
                      /\ event'.inst = i
                      /\ \E f \in sfetch :
                            /\ f.inst = i
                            /\ f.id = event'.id
                            /\ DOMAIN f.results
                                 = (1..Len(services)) \ {event'.k}
                            /\ f \notin sfetch'
                      /\ whole(spriv'[i].status_cache)
              /\ spriv'[i].status_cache # <<>>
                   => whole(spriv'[i].status_cache)
              /\ (event'.type \in {"done", "then"} /\ event'.inst = i)
                   => \E format \in SdFormats :
                         last'.value
                           = sd_replace(spriv'[i].status_cache, format)]_vars

\* the query of the second service ended before that of the first, and the
\* cache holds the record of the first service first
C13_Witness ==
    /\ event.type = "done"
    /\ event.inst \in SdInsts
    /\ event.k = 1
    /\ Len(spriv[event.inst].status_cache) = 2
    /\ spriv[event.inst].status_cache[1].service
         = spriv[event.inst].services[1]
    /\ spriv[event.inst].status_cache[1].status
         # spriv[event.inst].status_cache[2].status

\* C17: parse_csv_line cuts a line at exactly the separators that have an
\* even number of double quotes before them; field j is what lies between
\* cut j-1 and cut j, its double quotes removed, trimmed; so there is one
\* field more than there are such separators.
C17_SplitOutsideQuotes ==
    (event.type = "output" /\ event.fn = "parse_csv_line") =>
        LET line == event.line
            outside(i) ==
                Cardinality({k \in 1..(i - 1) : line[k] = "\""}) % 2 = 0
            cuts == {i \in 1..Len(line) :
                        line[i] = event.separator /\ outside(i)}
            n == Cardinality(cuts)
            cut(j) == IF j = 0 THEN 0
                      ELSE IF j = n + 1 THEN Len(line) + 1
                      ELSE CHOOSE i \in cuts :
                              Cardinality({k \in cuts : k < i}) = j - 1
            field(j) == Trim(SelectSeq(SubSeq(line, cut(j - 1) + 1,
                                              cut(j) - 1),
                                       LAMBDA c : c # "\""))
        IN  /\ Len(event.result) = n + 1
            /\ \A j \in 1..(n + 1) : event.result[j] = field(j)

\* the line x,"a,b",y was split into x, a,b and y
C17_Witness ==
    /\ event.type = "output"
    /\ event.fn = "parse_csv_line"
    /\ event.line = <<"x", ",", "\"", "a", ",", "b", "\"", ",", "y">>
    /\ event.result = << <<"x">>, <<"a", ",", "b">>, <<"y">> >>

\* C18: the keys of every parsed row are exactly the header names; the
\* value under a header name is the field of the data line at the (last)
\* column of that name, the empty string when the line has no such field,
\* and fields beyond the last header are in no row; row_count is the number
\* of rows, one per non-blank line after the first; empty output gives no
\* headers and no rows.
C18_RowsCoverHeaders ==
    (event.type = "output" /\ event.fn = "parse_csv_output") =>
        LET r == event.result
            lines == SelectSeq(Split(event.output, "\n"),
                               LAMBDA l : Trim(l) # <<>>)
            column(h) == CHOOSE k \in 1..Len(r.headers) :
                            /\ r.headers[k] = h
                            /\ \A m \in 1..Len(r.headers) :
                                  r.headers[m] = h => m <= k
        IN  /\ r.row_count = Len(r.rows)
            /\ Len(r.rows) = IF lines = <<>> THEN 0 ELSE Len(lines) - 1
            /\ lines = <<>> => r.headers = <<>> /\ r.rows = <<>>
            /\ lines # <<>>
                 => r.headers = parse_csv_line(lines[1], event.separator)
            /\ \A m \in 1..Len(r.rows) :
                  LET fields == parse_csv_line(lines[m + 1], event.separator)
                  IN  /\ DOMAIN r.rows[m] = Range(r.headers)
                      /\ \A h \in Range(r.headers) :
                            r.rows[m][h] = IF column(h) <= Len(fields)
                                           THEN fields[column(h)]
                                           ELSE <<>>

\* C20: in line mode the stored list is the non-blank lines of the output
\* in their order (each as written, or trimmed), all of them when the
\* max-lines bound is 0 and the last min(N, count) of them when it is a
\* positive N; line_count, which {lines} renders, is the length of the
\* stored list.
C20_StoredLines ==
    (event.type = "output" /\ event.fn = "parse_raw_output") =>
        LET r == event.result
            lines == SelectSeq(Split(event.output, "\n"),
                               LAMBDA l : Trim(l) # <<>>)
            n == event.max_lines
            kept == IF n > 0 /\ Len(lines) > n
                    THEN SubSeq(lines, Len(lines) - n + 1, Len(lines))
                    ELSE lines
        IN  /\ Len(r.lines) = Len(kept)
            /\ \A j \in 1..Len(kept) :
                  r.lines[j] \in {kept[j], Trim(kept[j])}
            /\ r.line_count = Len(r.lines)

\* C14: in the exec sensor a token whose body is made of alphanumerics and
\* "." and that resolves to nothing (it is no keyword of the grammar, no
\* index of a stored row or line, no cell of a stored row under one of the
\* header names) is replaced by the empty string, in the tabular and in the
\* line grammar, and the text around the token is returned as it is.
C14_UnresolvedEmpty ==
    (event.type = "done" /\ event.inst \in ExecInsts) =>
        LET p == xpriv[event.inst]
            body == Unwrap(event.format)
            IsNumber(b) == b # <<>> /\ \A k \in 1..Len(b) : IsDigit(b[k])
            keywords == IF p.csv THEN CsvKeywords ELSE RawKeywords
            count == IF p.csv THEN p.row_count ELSE p.line_count
            dot == CHOOSE d \in 1..Len(body) :
                      body[d] = "." /\ \A k \in 1..(d - 1) : body[k] # "."
            resolves ==
                \/ body \in keywords
                \/ IsNumber(body) /\ parseInt(body) < count
                \/ /\ p.csv
                   /\ "." \in Range(body)
                   /\ IsNumber(SubSeq(body, 1, dot - 1))
                   /\ parseInt(SubSeq(body, 1, dot - 1)) < count
                   /\ SubSeq(body, dot + 1, Len(body)) \in Range(p.headers)
        IN  /\ last.value = <<"<">> \o Render(p, body) \o <<">">>
            /\ (\A k \in 1..Len(body) : IsWordChar(body[k]) \/ body[k] = ".")
                  => (~resolves => last.value = <<"<", ">">>)

\* C15: in the aggregate grammar the token {9}, and a token {n} with n >= 10
\* whose resource index (n - 10) div 5 is not below the number of resources,
\* renders as the empty string.
C15_UnresolvedIndexEmpty ==
    (event.type = "done" /\ event.inst \in SdInsts) =>
        LET index == parseInt(Unwrap(event.format))
            count == Len(spriv[event.inst].status_cache)
        IN  (index = 9 \/ (index >= 10 /\ (index - 10) \div 5 >= count))
               => last.value = <<"<", ">">>

\* C16: after a successful tabular fetch of a table with the distinct
\* header names h1..hk and the rows r0..r(n-1), {columns} renders k, {rows}
\* renders n and, for every N below n, {N.hj} renders field j of row N and
\* {N} renders the fields of row N joined by the separator; so the header
\* a;b;c and the row 1;2;3 give "2" for {0.b} and "1;2;3" for {0}.
C16_TabularRoundTrip ==
    (event.type = "done" /\ event.inst = "e1" /\ event.ok) =>
        LET p == xpriv["e1"]
            t == CHOOSE u \in RenderTables :
                    TableText(u, p.separator) = event.stdout
            k == Len(t.headers)
            n == Len(t.rows)
            renders(body, text) ==
                /\ Render(p, body) = text
                /\ event.format = Wrap(body)
                      => last.value = <<"<">> \o text \o <<">">>
        IN  (\A i, j \in 1..k : t.headers[i] = t.headers[j] => i = j) =>
               /\ renders(<<"c", "o", "l", "u", "m", "n", "s">>, NumStr(k))
               /\ renders(<<"r", "o", "w", "s">>, NumStr(n))
               /\ \A N \in 0..(n - 1) :
                     /\ renders(NumStr(N),
                                Join(t.rows[N + 1], <<p.separator>>))
                     /\ \A j \in 1..k :
                           renders(NumStr(N) \o <<".">> \o t.headers[j],
                                   t.rows[N + 1][j])

\* C19: when a header name stands over two columns of a table, the header
\* list keeps every column (and {columns} counts every column), each row
\* has one value under the name, the field of the last column of that
\* name, and {N.name} renders that field.
C19_LaterDuplicateWins ==
    (event.type = "done" /\ event.inst = "e1" /\ event.ok) =>
        LET p == xpriv["e1"]
            t == CHOOSE u \in RenderTables :
                    TableText(u, p.separator) = event.stdout
            k == Len(t.headers)
            later(j) == \E m \in (j + 1)..k : t.headers[m] = t.headers[j]
        IN  (\E j \in 1..k : later(j)) =>
            /\ p.headers = t.headers
            /\ Render(p, <<"c", "o", "l", "u", "m", "n", "s">>) = NumStr(k)
            /\ \A N \in 0..(Len(t.rows) - 1), j \in 1..k :
                  /\ DOMAIN p.rows[N + 1] = Range(t.headers)
                  /\ ~later(j) =>
                        LET body == NumStr(N) \o <<".">> \o t.headers[j] IN
                        /\ p.rows[N + 1][t.headers[j]] = t.rows[N + 1][j]
                        /\ Render(p, body) = t.rows[N + 1][j]
                        /\ event.format = Wrap(body)
                              => last.value
                                   = <<"<">> \o t.rows[N + 1][j] \o <<">">>

\* the table a;a / 1;2 was fetched: two headers, and {0.a} rendered as 2
C19_Witness ==
    /\ event.type = "done"
    /\ event.inst = "e1"
    /\ event.stdout = <<"a", ";", "a", "\n", "1", ";", "2", "\n">>
    /\ event.format = Wrap(<<"0", ".", "a">>)
    /\ Len(xpriv["e1"].headers) = 2
    /\ last.value = <<"<", "2", ">">>

\* C21: every line stored in line mode is trimmed: it neither begins nor
\* ends with whitespace.
C21_StoredLinesTrimmed ==
    (event.type = "output" /\ event.fn = "parse_raw_output") =>
        \A j \in 1..Len(event.result.lines) :
            LET l == event.result.lines[j] IN
            l # <<>> /\ ~IsSpace(l[1]) /\ ~IsSpace(l[Len(l)])

\* C22: every sample result has min 0 and, as max, the size of the state its
\* value was rendered from: the number of headers of a tabular instance,
\* the number of stored lines of a line instance, the number of cached
\* status records of a systemd instance.
C22_ResultRange ==
    event.type \in {"done", "then"} =>
        /\ last.id = event.id
        /\ last.inst = event.inst
        /\ last.min = 0
        /\ last.max = IF event.inst \in SdInsts
                      THEN Len(spriv[event.inst].status_cache)
                      ELSE IF xpriv[event.inst].csv
                      THEN Len(xpriv[event.inst].headers)
                      ELSE Len(xpriv[event.inst].raw_lines)

\* a tabular instance rendered a table of two columns and one row: max is 2
C22_Witness ==
    /\ event.type = "done"
    /\ event.inst = "e1"
    /\ Len(xpriv["e1"].headers) = 2
    /\ xpriv["e1"].row_count = 1
    /\ last.max = 2
    /\ last.min = 0

\* C23: the summary token renders "R/T running", T being the number of
\* cached records and R the number of them whose state is active, followed
\* by ", F failed" exactly when the number F of failed ones is above 0.
C23_Summary ==
    event.type = "then" =>
        LET cache == spriv[event.inst].status_cache
            T == Len(cache)
            R == Cardinality({k \in 1..T : cache[k].status = <<"active">>})
            F == Cardinality({k \in 1..T : cache[k].status = <<"failed">>})
            text == NumStr(R) \o <<"/">> \o NumStr(T) \o <<" ", "running">>
                      \o (IF F > 0
                          THEN <<",", " ">> \o NumStr(F) \o <<" ", "failed">>
                          ELSE <<>>)
        IN  /\ sd_replace(cache, <<"{", "8", "}">>) = text
            /\ event.format = Wrap(<<"8">>)
                  => last.value = <<"<">> \o text \o <<">">>

\* five services, three active, one failed, one inactive: the summary is
\* 3/5 running, 1 failed
C23_Witness ==
    /\ event.type = "then"
    /\ event.format = Wrap(<<"8">>)
    /\ Len(spriv["s1"].status_cache) = 5
    /\ CountStatus(spriv["s1"].status_cache, "inactive") = 1
    /\ last.value = <<"<", "3", "/", "5", " ", "running", ",", " ", "1", " ",
                      "failed", ">">>

\* C24: for every cached record i (from 0) and every f in 0..4 the token
\* 10 + 5*i + f renders field f of record i, the fields being display name,
\* state, elapsed, label and symbol; so every number from 10 up to the end
\* of the last block renders the field (n - 10) mod 5 of record
\* (n - 10) div 5 and no other; the numbers 1 to 4 render counts.
C24_ResourceFields ==
    event.type = "then" =>
        LET cache == spriv[event.inst].status_cache
            field(r, f) == CASE f = 0 -> r.display_name
                             [] f = 1 -> r.status
                             [] f = 2 -> r.elapsed
                             [] f = 3 -> r.label
                             [] OTHER -> r.symbol
            count(state) ==
                Cardinality({k \in 1..Len(cache) : cache[k].status = state})
        IN  /\ \A i \in 0..(Len(cache) - 1), f \in 0..4 :
                  LET body == NumStr(10 + 5 * i + f) IN
                  /\ sd_replace(cache, <<"{">> \o body \o <<"}">>)
                       = field(cache[i + 1], f)
                  /\ event.format = Wrap(body)
                        => last.value
                             = <<"<">> \o field(cache[i + 1], f) \o <<">">>
            /\ sd_replace(cache, <<"{", "1", "}">>) = NumStr(Len(cache))
            /\ sd_replace(cache, <<"{", "2", "}">>)
                  = NumStr(count(<<"active">>))
            /\ sd_replace(cache, <<"{", "3", "}">>)
                  = NumStr(count(<<"failed">>))
            /\ sd_replace(cache, <<"{", "4", "}">>)
                  = NumStr(count(<<"inactive">>))

\* token 16 rendered the state of the second of two services, which differs
\* from the state of the first
C24_Witness ==
    /\ event.type = "then"
    /\ event.format = Wrap(<<"1", "6">>)
    /\ Len(spriv["s1"].status_cache) >= 2
    /\ spriv["s1"].status_cache[1].status = <<"active">>
    /\ spriv["s1"].status_cache[2].status = <<"failed">>
    /\ last.value = <<"<", "failed", ">">>

\* C25: the state of every status record is one of active, failed,
\* inactive, activating, deactivating, reloading and unknown, whatever
\* systemctl reported.
C25_StateInEnum ==
    (event.type = "output" /\ event.fn = "get_service_status") =>
        event.result.status \in
            { <<"active">>, <<"failed">>, <<"inactive">>, <<"activating">>,
              <<"deactivating">>, <<"reloading">>, <<"unknown">> }

\* C25, amended: the state of a status record is the state systemctl
\* reported, whatever text that is, and unknown when it reported none or
\* an empty one; a state of the lookup table has the label and the symbol
\* of the table.
C25_StateAsReported ==
    (event.type = "output" /\ event.fn = "get_service_status") =>
        LET r == event.result
        IN  /\ r.status = IF event.state = <<>> THEN <<"unknown">>
                          ELSE event.state
            /\ r.status = <<"active">>
                  => r.label = <<"running">> /\ r.symbol = <<"(bullet)">>
            /\ r.status = <<"unknown">>
                  => r.label = <<"unknown">> /\ r.symbol = <<"?">>

\* systemctl reported the state maintenance: the record has that state and
\* the label of unknown
C25_Witness ==
    /\ event.type = "output"
    /\ event.fn = "get_service_status"
    /\ event.state = <<"maintenance">>
    /\ event.result.status = <<"maintenance">>
    /\ event.result.label = <<"unknown">>

\* C26: for an elapsed time of s >= 0 whole seconds the elapsed string is
\* the largest applicable unit pair: "Dd Hh" from a day on, else "Hh Mm"
\* from an hour on, else "Mm Ss" from a minute on, else "Ss", with H the
\* hours of the day and M, S the minutes and seconds of the hour and minute;
\* 90 seconds give "1m 30s" and 3 days 2 hours give "3d 2h".
C26_LargestUnitPair ==
    (event.type = "output" /\ event.fn = "format_elapsed_time"
       /\ event.timestamp_ms <= event.date_now) =>
        LET d == NumStr(event.days)
            h == NumStr(event.hours)
            m == NumStr(event.minutes)
            s == NumStr(event.seconds)
            r == event.result
        IN  /\ event.days > 0 => r = d \o <<"d", " ">> \o h \o <<"h">>
            /\ (event.days = 0 /\ event.hours > 0)
                  => r = h \o <<"h", " ">> \o m \o <<"m">>
            /\ (event.days = 0 /\ event.hours = 0 /\ event.minutes > 0)
                  => r = m \o <<"m", " ">> \o s \o <<"s">>
            /\ (event.days = 0 /\ event.hours = 0 /\ event.minutes = 0)
                  => r = s \o <<"s">>
            /\ (event.date_now - event.timestamp_ms) \in 90000..90999
                  => r = <<"1", "m", " ", "3", "0", "s">>
            /\ (event.date_now - event.timestamp_ms) \in
                    (266400000..266400999)
                  => r = <<"3", "d", " ", "2", "h">>

\* 3 days, 2 hours, 1 minute and 30 seconds ago is rendered "3d 2h"
C26_Witness ==
    /\ event.type = "output"
    /\ event.fn = "format_elapsed_time"
    /\ ~event.future
    /\ event.days = 3 /\ event.hours = 2
    /\ event.minutes = 1 /\ event.seconds = 30
    /\ event.result = <<"3", "d", " ", "2", "h">>

\* C27: a timestamp in the future (a negative elapsed time) renders the
\* elapsed string "unknown".
C27_FutureUnknown ==
    (event.type = "output" /\ event.fn = "format_elapsed_time"
       /\ event.timestamp_ms > event.date_now) =>
        event.result = <<"u", "n", "k", "n", "o", "w", "n">>

\* C27, amended: a timestamp in the future renders the elapsed string "-",
\* and no elapsed string shows a negative amount.
C27_FutureDash ==
    /\ (event.type = "output" /\ event.fn = "format_elapsed_time") =>
          /\ event.timestamp_ms > event.date_now => event.result = <<"-">>
          /\ event.result = <<"-">> \/ event.result[1] # "-"
    /\ (event.type = "output" /\ event.fn = "get_service_status") =>
          /\ event.result.timestamp > event.date_now
                => event.result.elapsed = <<"-">>
          /\ event.result.elapsed = <<"-">> \/ event.result.elapsed[1] # "-"

\* a timestamp 30 seconds ahead is rendered "-"
C27_Witness ==
    /\ event.type = "output"
    /\ event.fn = "format_elapsed_time"
    /\ event.timestamp_ms = event.date_now + 30000
    /\ event.result = <<"-">>

\* C28: the timestamp of a status record is that of the text chosen by its
\* state: the active-enter text for active; the inactive-enter text for
\* failed, and the state-change text when that is empty; the inactive-enter
\* text for inactive; the state-change text for any other state.  A chosen
\* text that is empty or cannot be parsed gives the timestamp 0, and the
\* record is still delivered.
C28_TimestampByState ==
    (event.type = "output" /\ event.fn = "get_service_status") =>
        LET chosen ==
              IF event.state = <<"active">> THEN event.active_enter
              ELSE IF event.state = <<"failed">>
                   THEN IF event.inactive_enter # <<>>
                        THEN event.inactive_enter
                        ELSE event.state_change
              ELSE IF event.state = <<"inactive">> THEN event.inactive_enter
              ELSE event.state_change
            ms == CASE chosen = TimeText("00:01:40") -> 100000
                    [] chosen = TimeText("00:02:30") -> 150000
                    [] chosen = TimeText("00:03:10") -> 190000
                    [] chosen = <<"2025-12-02", " ", "00:01:40">> -> 100000
                    [] OTHER -> 0
        IN  /\ event.result.timestamp = ms
            /\ event.result.service = <<"s1panel", "-", "web">>

\* a failed service with no inactive-enter time takes its state-change time
C28_Witness ==
    /\ event.type = "output"
    /\ event.fn = "get_service_status"
    /\ event.state = <<"failed">>
    /\ event.inactive_enter = <<>>
    /\ event.state_change = TimeText("00:02:30")
    /\ event.result.timestamp = 150000

\* C29: the display name is the identifier with the configured prefix
\* removed when the identifier starts with it, and then with one leading
\* separator removed when present, whether or not a prefix was removed.
C29_PrefixThenSeparator ==
    (event.type = "output" /\ event.fn = "display_name") =>
        LET id == event.service
            pre == event.strip_prefix
            starts == /\ pre # <<>>
                      /\ Len(pre) <= Len(id)
                      /\ \A i \in 1..Len(pre) : id[i] = pre[i]
            rest == IF starts THEN SubSeq(id, Len(pre) + 1, Len(id)) ELSE id
        IN  event.result =
              IF rest # <<>> /\ rest[1] = "-"
              THEN SubSeq(rest, 2, Len(rest)) ELSE rest

\* C29, amended: the display name is the identifier with the configured
\* prefix removed when the identifier starts with it, and then, only when
\* the prefix was removed, with one leading separator removed when present;
\* with no configured prefix, or an identifier that does not start with
\* it, the display name is the identifier as it is.
C29_SeparatorAfterPrefix ==
    (event.type = "output" /\ event.fn = "display_name") =>
        LET id == event.service
            pre == event.strip_prefix
            starts == /\ pre # <<>>
                      /\ Len(pre) <= Len(id)
                      /\ \A i \in 1..Len(pre) : id[i] = pre[i]
            rest == SubSeq(id, Len(pre) + 1, Len(id))
        IN  event.result =
              IF ~starts THEN id
              ELSE IF rest # <<>> /\ rest[1] = "-"
                   THEN SubSeq(rest, 2, Len(rest)) ELSE rest

\* the prefix p and the separator are removed from p-w
C29_Witness ==
    /\ event.type = "output"
    /\ event.fn = "display_name"
    /\ event.service = <<"p", "-", "w">>
    /\ event.strip_prefix = <<"p">>
    /\ event.result = <<"w">>

\* C30: every line of the property text is split at its first '=': the key
\* is the text before it and the value all the text after it, further '='
\* included; a line with no '=' or with nothing before its first '='
\* gives no property.  (Of two lines with the same key the later one gives
\* the value.)
C30_SplitAtFirstEq ==
    (event.type = "output" /\ event.fn = "parse_systemctl_show") =>
        LET out == event.output
            res == event.result
            n == Len(out)
            \* out[i..j] is a line with its first '=' at k, after a key
            sets == {t \in (1..n) \X (1..n) \X (1..n) :
                       /\ t[1] < t[3] /\ t[3] <= t[2]
                       /\ (t[1] = 1 \/ out[t[1] - 1] = "\n")
                       /\ (t[2] = n \/ out[t[2] + 1] = "\n")
                       /\ \A m \in t[1]..t[2] : out[m] # "\n"
                       /\ out[t[3]] = "="
                       /\ \A m \in t[1]..(t[3] - 1) : out[m] # "="}
            key(t) == SubSeq(out, t[1], t[3] - 1)
            value(t) == SubSeq(out, t[3] + 1, t[2])
        IN  /\ DOMAIN res = {key(t) : t \in sets}
            /\ \A t \in sets :
                  (\A u \in sets : key(u) = key(t) => u[1] <= t[1])
                      => res[key(t)] = value(t)

\* C31: rendering is idempotent: a sample call that starts no fetch
\* returns the very value the previous call of the same instance with the
\* same format returned, when that call started no fetch either and no
\* fetch has completed since; this holds for both sensors, the elapsed
\* strings of the systemd sensor included.
C31_Idempotent ==
    (/\ event.type = "then"
     /\ event.prev.kind = "cache"
     /\ event.prev.inst = event.inst
     /\ event.prev.format = event.format)
        => last.value = event.prev.value

\* the systemd instance renders its filled cache twice in a row, with the
\* elapsed time of the first service in the value
C31_Witness ==
    /\ event.type = "then"
    /\ event.inst = "s1"
    /\ event.prev.kind = "cache"
    /\ event.prev.inst = "s1"
    /\ event.prev.format = event.format
    /\ Len(spriv["s1"].status_cache) = 2
    /\ spriv["s1"].status_cache[1].elapsed = <<"1", "m", " ", "3", "0", "s">>
    /\ last.value = event.prev.value

\* C32: tokens are expanded once: when the fetched table has the fields
\* {rows} and {0} in its row (and the fetched lines are a;b and {rows};{0}),
\* a token that resolves to such a field or line puts it into the value as
\* it is, and the token inside it is not expanded.
C32_ExpandedOnce ==
    (/\ event.type = "done" /\ event.ok
     /\ event.inst \in ExecInsts
     /\ event.stdout = TableText(TokenTable, ";")) =>
        LET rows == <<"{", "r", "o", "w", "s", "}">>
            zero == <<"{", "0", "}">>
            gives(body, text) ==
                event.format = Wrap(body)
                   => last.value = <<"<">> \o text \o <<">">>
        IN  /\ event.inst = "e1" =>
               /\ gives(<<"0", ".", "a">>, rows)
               /\ gives(<<"0", ".", "b">>, zero)
               /\ gives(<<"0">>, rows \o <<";">> \o zero)
               /\ gives(<<"r", "o", "w", "s">>, <<"1">>)
            /\ event.inst = "e2" =>
               /\ gives(<<"0">>, <<"a", ";", "b">>)
               /\ gives(<<"1">>, rows \o <<";">> \o zero)
               /\ gives(<<"a", "l", "l">>,
                        <<"a", ";", "b", "\n">> \o rows \o <<";">> \o zero)

\* the field {rows} was fetched and {0.a} rendered as the text {rows}
C32_Witness ==
    /\ event.type = "done"
    /\ event.inst = "e1"
    /\ event.stdout = TableText(TokenTable, ";")
    /\ event.format = Wrap(<<"0", ".", "a">>)
    /\ last.value = <<"<", "{", "r", "o", "w", "s", "}", ">">>

\* C33: after a failed fetch the recorded exit code, and what {exit_code}
\* renders, is the numeric exit code of the command, or -1 when the error
\* carries no numeric exit code (spawn error, kill on timeout, output
\* overflow); after a successful fetch it is 0.
C33_ExitCode ==
    (event.type = "done" /\ event.inst \in ExecInsts) =>
        LET p == xpriv[event.inst]
            expected == IF event.ok THEN 0
                        ELSE IF event.code.t = "number" THEN event.code.n
                        ELSE -1
        IN  /\ p.exit_code = JsNum(expected)
            /\ Render(p, <<"e", "x", "i", "t", "_", "c", "o", "d", "e">>)
                  = NumStr(expected)

\* C39: in every state of an exec instance, last_success being true
\* implies that the recorded exit code is 0: {success} never renders "true"
\* beside an {exit_code} other than "0".
C39_SuccessMeansZero ==
    \A i \in DOMAIN xpriv :
       LET p == xpriv[i] IN
       /\ p.last_success => p.exit_code = JsNum(0)
       /\ Render(p, <<"s", "u", "c", "c", "e", "s", "s">>)
             = <<"t", "r", "u", "e">>
            => Render(p, <<"e", "x", "i", "t", "_", "c", "o", "d", "e">>)
                  = <<"0">>

\* two fetches of the tabular instance have completed and it holds a
\* success with exit code 0, beside the line instance, whose one fetch
\* failed with exit code 2
C39_Witness ==
    /\ enabled = ExecInsts
    /\ xpriv["e1"].last_success
    /\ xpriv["e1"].exit_code = JsNum(0)
    /\ hist["e1"].done = 2
    /\ hist["e2"].done = 1
    /\ ~xpriv["e2"].last_success
    /\ xpriv["e2"].exit_code = JsNum(2)

\* C37: a fetch that completes after a fetch of the same instance that was
\* started later has completed does not overwrite the cached state: when
\* the result fulfilled last is that of a newer fetch of the instance, the
\* completion of the older fetch leaves the private state of the instance
\* as the newer fetch made it.
C37_NewestFetchWins ==
    [][\A f \in xfetch \cup sfetch :
          (/\ event'.type = "done"
           /\ event'.id = f.id
           /\ event'.inst = f.inst
           /\ last.kind = "fetch"
           /\ last.inst = f.inst
           /\ last.id > f.id)
              => IF f.inst \in ExecInsts
                 THEN xpriv'[f.inst] = xpriv[f.inst]
                 ELSE spriv'[f.inst] = spriv[f.inst]]_vars

\* C38: a sample call that starts no fetch does not wait for a fetch of its
\* instance that is in flight: a call that is not yet fulfilled is either a
\* fetch in flight or a reaction queued for this very turn, and no fetch
\* completes while a reaction is queued.  Such a call is fulfilled with the
\* rendering of the cache as it is at that moment, so it can be fulfilled
\* while the earlier call that started the fetch is not, and its value is
\* that of the state from before the fetch (the defaults when no fetch of
\* the instance has completed).
C38_NoWaitForFetch ==
    /\ \A id \in (1..ncalls) \ fulfilled :
          \/ \E f \in xfetch \cup sfetch : f.id = id
          \/ \E k \in 1..Len(micro) : micro[k].id = id
    /\ event.type \in {"done", "status"} => micro = <<>>
    /\ event.type = "then" =>
          LET i == event.inst
              now_cached == IF i \in ExecInsts
                            THEN exec_result(xpriv[i], event.format)
                            ELSE sd_result(spriv[i], event.format)
              at_init == IF i \in ExecInsts
                         THEN exec_result(exec_init(ExecConfig(i)).private,
                                          event.format)
                         ELSE sd_result(sd_init(SdConfig(i)).private,
                                        event.format)
          IN  /\ event.id \in fulfilled
              /\ \A f \in InFlight(i) : f.id \notin fulfilled
              /\ last.id = event.id
              /\ last.value = now_cached.value
              /\ hist[i].done = 0 => last.value = at_init.value

\* a call is fulfilled from a cache that a first fetch filled while the
\* call before it, which started a second fetch, is not fulfilled
C38_Witness ==
    /\ event.type = "then"
    /\ \E f \in InFlight(event.inst) : f.id < event.id /\ f.id \notin fulfilled
    /\ event.id \in fulfilled
    /\ hist[event.inst].done = 1
    /\ hist[event.inst].ever_ok
    /\ last.id = event.id
    /\ last.max > 0

\* C34: when the command line of the LED strip script holds no theme,
\* intensity or speed command, the script sends no configuration to the
\* panel (no POST), also when its status query fails.
C34_StatusOnly ==
    (/\ event.type = "led"
     /\ \A k \in 1..Len(event.argv) :
           event.argv[k] \notin {"theme", "intensity", "speed"}) =>
        \A k \in 1..Len(event.sent) : event.sent[k].method # "POST"

\* C35: the load history store holds exactly 16 samples after any runs of
\* the script (whenever no instance is at work on it): 16 zeros at first,
\* and at each update the oldest sample is dropped and the current
\* 5-minute load is appended.
C35_SixteenSamples ==
    (event.type = "load" /\ event.exists /\ event.pc = "idle") =>
        /\ Len(event.DB_FILE) = MAX_SAMPLES
        /\ event.updates = 0 => event.DB_FILE = ZEROS

\* C36: the colour of the doughnut is that of the threshold of the greatest
\* value the current value meets or exceeds (of the first listed among
\* thresholds of that one value), whatever the order the thresholds are
\* listed in; without thresholds, or with an empty list, the defaults apply
\* (from 0 green, from 50 yellow, from 75 orange, from 90 red); a value that
\* meets no threshold gets the configured default colour.
C36_GreatestThresholdMet ==
    (event.type = "color" /\ event.done) =>
        LET v == event.value
            listed == event.thresholds.given = "array"
                          /\ event.thresholds.list # <<>>
            th == IF listed THEN event.thresholds.list
                  ELSE DEFAULT_THRESHOLDS
            met == {k \in 1..Len(th) : ~v.nan /\ th[k].value <= v.n}
            top == {k \in met : \A j \in met : th[j].value <= th[k].value}
            backwards == [given |-> "array",
                          list |-> [k \in 1..Len(th) |-> th[Len(th) + 1 - k]]]
        IN  /\ met # {} =>
                 event.color = th[CHOOSE k \in top : \A j \in top : k <= j].color
            /\ (/\ met # {}
                /\ \A j, k \in 1..Len(th) : th[j].value = th[k].value => j = k) =>
                 event.color = get_threshold_color(v, backwards, event.used)
            /\ (~listed /\ ~v.nan /\ v.n >= 0) =>
                 event.color = CASE v.n >= 90 -> "#ff3333"
                                 [] v.n >= 75 /\ v.n < 90 -> "#ff9500"
                                 [] v.n >= 50 /\ v.n < 75 -> "#ffcc00"
                                 [] OTHER -> "#00e600"
            /\ (met = {} /\ event.used # "") => event.color = event.used

\* C36 witness: thresholds listed in ascending order, a value that meets two
\* of them, and the colour of the greater one chosen, which differs from
\* the colour of the smaller one.
C36_Witness ==
    /\ event.type = "color"
    /\ event.done
    /\ event.thresholds.given = "array"
    /\ Len(event.thresholds.list) = 2
    /\ event.thresholds.list[1].value = 0
    /\ event.thresholds.list[2].value = 50
    /\ event.value = [nan |-> FALSE, n |-> 75]
    /\ event.color = event.thresholds.list[2].color
    /\ event.color # event.thresholds.list[1].color

====
